---- MODULE Spec2Model ----
(***************************************************************************)
(* Model of the MTGC deck builder: the opening-hand and match simulator    *)
(* and the match history file (battle_simulator.py), the Deck methods      *)
(* (models.py), the catalog search (mtg_api.py) and the "Smart Build Deck" *)
(* callback with its recommender (main.py).                                *)
(***************************************************************************)
EXTENDS Integers, Sequences, FiniteSets, TLC

(***************************************************************************)
(* Bounds of the model.                                                    *)
(***************************************************************************)
\* largest quantity of one card name in a simulated deck
MaxQty == 3
\* largest hand size passed to simulate_hand (the smallest is -1)
MaxHand == 8
\* largest quantity of one card name in a deck passed to simulate_match
MaxMatchQty == 6
\* largest iteration count passed to simulate_match
MaxIter == 3
\* largest number of tokens typed in the colour dialog
MaxTokens == 4
\* largest land count for which the land allocation is examined
MaxLandCount == 25
\* largest number of records in the match history given to the recommender
MaxHistory == 3
\* number of cards in the long result lists of the catalog
MaxCatalog == 40
\* largest number of add_card and remove_card calls on one deck
MaxDeckCalls == 3
\* largest absolute quantity passed to add_card and remove_card
MaxDelta == 2
\* largest number of record_manual_result calls
MaxRecordCalls == 3
\* games of one Simulate Battle run (iterations=1000 in the program)
SimulateIterations == MaxIter

\* largest number of runs of the Record Result callback
MaxRecordRuns == 2

\* largest number of save_deck and load_deck calls
MaxStoreCalls == 3

(***************************************************************************)
(* Program constants of battle_simulator.py.                               *)
(***************************************************************************)
BASIC_LANDS == {"Plains", "Island", "Swamp", "Mountain", "Forest"}

\* the default hand_size of simulate_hand, used by every call of simulate_match
DefaultHandSize == 7

\* land_count bounds of a keepable hand: 2 <= land_count <= 5
MinLands == 2
MaxLands == 5

(***************************************************************************)
(* Card names of the decks handed to the simulator, in the order in which  *)
(* the deck dictionaries list them.                                        *)
(***************************************************************************)
HandNames == <<"Plains", "Mountain", "Bolt", "Bear">>
MatchNames == <<"Forest", "Bolt">>

Range(s) == {s[i] : i \in 1..Len(s)}

VARIABLES
    \* ---- one call of simulate_hand(deck, hand_size)
    h_pc,        \* "call" | "returned" | "raised"
    h_cards,     \* deck.cards: card name -> quantity
    h_size,      \* hand_size
    h_len,       \* len(deck_list) seen by the call
    h_hand,      \* the sampled hand: card name -> copies drawn
    h_lands,     \* land_count
    h_result,    \* the returned boolean
    \* ---- one call of simulate_match(deck1, deck2, iterations)
    m_pc,        \* "loop" | "done"
    cards1,      \* deck1.cards
    cards2,      \* deck2.cards
    iterations,
    it,          \* iterations of the loop completed
    wins1, wins2, ties,
    result1, result2,   \* the two hand results of the last iteration
    m_return,    \* the returned triple
    \* ---- one run of the "Smart Build Deck" callback _on_smart_build
    b_pc,        \* the place the callback has reached
    color_input, \* answer of the colour dialog
    colors,      \* the colour list kept by the callback
    history,     \* the stored match history (data/match_history.json)
    history_loads,  \* calls of load_match_history made by the callback
    best_arch,   \* recommended archetype, <<>> for None
    best_rate,   \* its win rate <<wins, total>>, <<-1, 1>> for -1.0
    archetype,   \* the archetype built, <<>> for None
    deck,        \* the Deck under construction
    used,        \* names added by the acquisition phases
    queries,     \* catalog queries issued so far
    shown,       \* title of the last message box shown
    current_deck, \* self.current_deck
    response,    \* the catalog's answer to the last query issued
    \* ---- one Deck object under add_card and remove_card
    d_cards,     \* Deck.cards: card name -> quantity
    d_calls,     \* number of calls made on the deck
    \* ---- the match history file under record_manual_result
    history_file, \* MATCH_HISTORY_FILE: missing, unparsable, or a JSON list
    call,        \* the arguments of the last record_manual_result call
    calls,       \* number of record_manual_result calls made
    \* ---- the deck files of DECKS_DIR under save_deck and load_deck
    saved_decks, \* deck name -> the JSON text of data/decks/<name>.json
    io,          \* the last save_deck or load_deck call and its outcome
    io_calls,    \* number of save_deck and load_deck calls made
    \* ---- two invocations of record_manual_result running side by side
    r_pc,        \* per invocation: "idle" | "call" | "loaded" | "appended" | "done"
    r_args,      \* per invocation: the record built from the arguments
    r_history    \* per invocation: the local variable history

simVars == <<h_pc, h_cards, h_size, h_len, h_hand, h_lands, h_result>>
matchVars == <<m_pc, cards1, cards2, iterations, it, wins1, wins2, ties,
               result1, result2, m_return>>
buildVars == <<b_pc, color_input, colors, history, history_loads, best_arch,
               best_rate, archetype, deck, used, queries, shown, current_deck,
               response>>
deckVars == <<d_cards, d_calls>>
logVars == <<history_file, call, calls>>
storeVars == <<saved_decks, io, io_calls>>
raceVars == <<r_pc, r_args, r_history>>

(***************************************************************************)
(* Deck.cards values: a mapping from the names present to quantities >= 1  *)
(* (the GUI never stores a quantity below 1).                              *)
(***************************************************************************)
Restrict(f) == [n \in {m \in DOMAIN f : f[m] > 0} |-> f[n]]

DecksOver(names, maxq) == {Restrict(f) : f \in [Range(names) -> 0..maxq]}

RECURSIVE SumOver(_, _)
SumOver(f, S) ==
    IF S = {} THEN 0
    ELSE LET n == CHOOSE x \in S : TRUE
         IN f[n] + SumOver(f, S \ {n})

\* Deck.total_cards
total_cards(cards) == SumOver(cards, DOMAIN cards)

(***************************************************************************)
(* _deck_to_list: the flat list of card names, qty copies of each name.    *)
(***************************************************************************)
Repeat(name, qty) == [i \in 1..qty |-> name]

RECURSIVE DeckToListIn(_, _)
DeckToListIn(cards, order) ==
    IF order = <<>> THEN <<>>
    ELSE (IF Head(order) \in DOMAIN cards
             THEN Repeat(Head(order), cards[Head(order)])
             ELSE <<>>) \o DeckToListIn(cards, Tail(order))

deck_to_list(cards, order) == DeckToListIn(cards, order)

CountIn(list, n) == Cardinality({i \in 1..Len(list) : list[i] = n})

MaxCount(list) ==
    IF list = <<>> THEN 0
    ELSE LET n == CHOOSE x \in Range(list) :
                    \A y \in Range(list) : CountIn(list, y) <= CountIn(list, x)
         IN CountIn(list, n)

(***************************************************************************)
(* random.sample(deck_list, k): k distinct positions of the list.  A hand  *)
(* is recorded by the number of copies of each name among the positions    *)
(* drawn, so each copy of the list is used at most once.                   *)
(***************************************************************************)
Samples(list, k) ==
    {h \in [Range(list) -> 0..MaxCount(list)] :
        /\ \A n \in Range(list) : h[n] <= CountIn(list, n)
        /\ SumOver(h, Range(list)) = k}

\* sum(1 for card in hand if card in BASIC_LANDS)
LandCount(hand) == SumOver(hand, DOMAIN hand \cap BASIC_LANDS)

\* a hand test with both comparisons strict
Keepable_Strict(land_count) == MinLands < land_count /\ land_count < MaxLands

\* a test without its upper bound: any hand with two lands or more
Keepable_NoUpperBound(land_count) == MinLands <= land_count

\* 2 <= land_count <= 5
Keepable(land_count) == MinLands <= land_count /\ land_count <= MaxLands

NoHand == [n \in {} |-> 0]

(***************************************************************************)
(* simulate_hand(deck, hand_size): every outcome the call can have.  A     *)
(* deck list shorter than the hand returns False before any card is drawn; *)
(* random.sample raises ValueError when the sample size is negative or     *)
(* larger than the list; otherwise one hand is drawn and tested.           *)
(***************************************************************************)
HandOutcome(kind, len, hand, lands, result) ==
    [kind |-> kind, len |-> len, hand |-> hand, lands |-> lands,
     result |-> result]

\* the length test off by one: a list one card short of the hand is sampled
simulate_hand_OffByOne(cards, order, hand_size) ==
    LET deck_list == deck_to_list(cards, order)
    IN IF Len(deck_list) + 1 < hand_size
          THEN {HandOutcome("returned", Len(deck_list), NoHand, 0, FALSE)}
          ELSE IF hand_size < 0 \/ hand_size > Len(deck_list)
                  THEN {HandOutcome("raised", Len(deck_list), NoHand, 0, FALSE)}
                  ELSE {HandOutcome("returned", Len(deck_list), hand,
                                    LandCount(hand), Keepable(LandCount(hand))) :
                            hand \in Samples(deck_list, hand_size)}

\* no length test: a short list is drawn whole and tested like a full hand
simulate_hand_DrawsShort(cards, order, hand_size) ==
    LET deck_list == deck_to_list(cards, order)
        k == IF Len(deck_list) < hand_size THEN Len(deck_list) ELSE hand_size
    IN IF k < 0
          THEN {HandOutcome("raised", Len(deck_list), NoHand, 0, FALSE)}
          ELSE {HandOutcome("returned", Len(deck_list), hand,
                            LandCount(hand), Keepable(LandCount(hand))) :
                    hand \in Samples(deck_list, k)}

simulate_hand(cards, order, hand_size) ==
    LET deck_list == deck_to_list(cards, order)
    IN IF Len(deck_list) < hand_size
          THEN {HandOutcome("returned", Len(deck_list), NoHand, 0, FALSE)}
          ELSE IF hand_size < 0 \/ hand_size > Len(deck_list)
                  THEN {HandOutcome("raised", Len(deck_list), NoHand, 0, FALSE)}
                  ELSE {HandOutcome("returned", Len(deck_list), hand,
                                    LandCount(hand), Keepable(LandCount(hand))) :
                            hand \in Samples(deck_list, hand_size)}

SimulateHandReturn ==
    /\ h_pc = "call"
    /\ \E o \in simulate_hand(h_cards, HandNames, h_size) :
          /\ o.kind = "returned"
          /\ h_len' = o.len
          /\ h_hand' = o.hand
          /\ h_lands' = o.lands
          /\ h_result' = o.result
    /\ h_pc' = "returned"
    /\ UNCHANGED <<h_cards, h_size>>

SimulateHandRaise ==
    /\ h_pc = "call"
    /\ \E o \in simulate_hand(h_cards, HandNames, h_size) :
          /\ o.kind = "raised"
          /\ h_len' = o.len
    /\ h_pc' = "raised"
    /\ UNCHANGED <<h_cards, h_size, h_hand, h_lands, h_result>>

\* the values simulate_hand(deck) can return to simulate_match
HandResults(cards) ==
    {o.result : o \in {x \in simulate_hand(cards, MatchNames, DefaultHandSize) :
                            x.kind = "returned"}}

(***************************************************************************)
(* simulate_match: one iteration of the loop, and the return.  Tally gives *)
(* the increments of (wins1, wins2, ties) chosen by the if/elif/else.      *)
(***************************************************************************)
\* the else branch counts a tie only when both hands are keepable
Tally_DropsMiss(r1, r2) ==
    IF r1 /\ ~r2 THEN <<1, 0, 0>>
    ELSE IF r2 /\ ~r1 THEN <<0, 1, 0>>
    ELSE IF r1 THEN <<0, 0, 1>>
    ELSE <<0, 0, 0>>

\* the conditions forget the "and not": a keepable hand wins outright
Tally_KeepWins(r1, r2) ==
    IF r1 THEN <<1, 0, 0>>
    ELSE IF r2 THEN <<0, 1, 0>>
    ELSE <<0, 0, 1>>

Tally(r1, r2) ==
    IF r1 /\ ~r2 THEN <<1, 0, 0>>
    ELSE IF r2 /\ ~r1 THEN <<0, 1, 0>>
    ELSE <<0, 0, 1>>

MatchIterate ==
    /\ m_pc = "loop"
    /\ it < iterations
    /\ \E r1 \in HandResults(cards1), r2 \in HandResults(cards2) :
          /\ result1' = r1
          /\ result2' = r2
          /\ wins1' = wins1 + Tally(r1, r2)[1]
          /\ wins2' = wins2 + Tally(r1, r2)[2]
          /\ ties' = ties + Tally(r1, r2)[3]
    /\ it' = it + 1
    /\ UNCHANGED <<m_pc, cards1, cards2, iterations, m_return>>
    /\ UNCHANGED <<history_file, saved_decks>>

MatchReturn ==
    /\ m_pc = "loop"
    /\ ~(it < iterations)
    /\ m_return' = <<wins1, wins2, ties>>
    /\ m_pc' = "done"
    /\ UNCHANGED <<cards1, cards2, iterations, it, wins1, wins2, ties,
                   result1, result2>>
    /\ UNCHANGED <<history_file, saved_decks>>

(***************************************************************************)
(* Python strings, as sequences of one-character strings, and the str      *)
(* methods the callback uses.                                              *)
(***************************************************************************)
LowerChars == <<"a", "b", "c", "d", "e", "f", "g", "h", "i", "j", "k", "l", "m", "n", "o", "p", "q", "r", "s", "t", "u", "v", "w", "x", "y", "z">>
UpperChars == <<"A", "B", "C", "D", "E", "F", "G", "H", "I", "J", "K", "L", "M", "N", "O", "P", "Q", "R", "S", "T", "U", "V", "W", "X", "Y", "Z">>

UpperChar(c) ==
    IF \E i \in 1..Len(LowerChars) : LowerChars[i] = c
       THEN UpperChars[CHOOSE i \in 1..Len(LowerChars) : LowerChars[i] = c]
       ELSE c

LowerChar(c) ==
    IF \E i \in 1..Len(UpperChars) : UpperChars[i] = c
       THEN LowerChars[CHOOSE i \in 1..Len(UpperChars) : UpperChars[i] = c]
       ELSE c

\* str.upper, str.lower
upper(s) == [i \in 1..Len(s) |-> UpperChar(s[i])]
lower(s) == [i \in 1..Len(s) |-> LowerChar(s[i])]

\* str.capitalize: first character upper-cased, the rest lower-cased
capitalize(s) == [i \in 1..Len(s) |-> IF i = 1 THEN UpperChar(s[i]) ELSE LowerChar(s[i])]

IsSpace(c) == c = " "

RECURSIVE lstrip(_)
lstrip(s) == IF s # <<>> /\ IsSpace(Head(s)) THEN lstrip(Tail(s)) ELSE s

RECURSIVE rstrip(_)
rstrip(s) ==
    IF s # <<>> /\ IsSpace(s[Len(s)]) THEN rstrip(SubSeq(s, 1, Len(s) - 1)) ELSE s

\* str.strip
strip(s) == rstrip(lstrip(s))

\* str.split(): the maximal runs of non-whitespace characters
RECURSIVE SplitAcc(_, _, _)
SplitAcc(rest, cur, acc) ==
    IF rest = <<>>
       THEN (IF cur = <<>> THEN acc ELSE Append(acc, cur))
       ELSE IF IsSpace(Head(rest))
               THEN SplitAcc(Tail(rest), <<>>,
                             IF cur = <<>> THEN acc ELSE Append(acc, cur))
               ELSE SplitAcc(Tail(rest), Append(cur, Head(rest)), acc)

split(s) == SplitAcc(s, <<>>, <<>>)

\* sep.join(parts)
RECURSIVE join(_, _)
join(sep, parts) ==
    IF parts = <<>> THEN <<>>
    ELSE IF Len(parts) = 1 THEN parts[1]
    ELSE parts[1] \o sep \o join(sep, Tail(parts))

\* s.startswith(prefix)
startswith(s, prefix) ==
    Len(prefix) <= Len(s) /\ SubSeq(s, 1, Len(prefix)) = prefix

\* part in s
contains(s, part) ==
    \E i \in 0..(Len(s) - Len(part)) : SubSeq(s, i + 1, i + Len(part)) = part

(***************************************************************************)
(* Deck (models.py).                                                       *)
(***************************************************************************)
NoCards == [n \in {} |-> 0]

\* self.current_deck = None
NoDeck == [present |-> FALSE, name |-> <<>>, cards |-> NoCards]

\* Deck(name=name)
Deck(name) == [present |-> TRUE, name |-> name, cards |-> NoCards]

\* Deck.add_card: cards[card_name] = cards.get(card_name, 0) + qty
add_card(cards, card_name, qty) ==
    [n \in DOMAIN cards \cup {card_name} |->
        IF n = card_name
           THEN (IF card_name \in DOMAIN cards THEN cards[card_name] ELSE 0) + qty
           ELSE cards[n]]

\* Deck.remove_card: the entry is deleted when new_qty is not positive
remove_card(cards, card_name, qty) ==
    IF card_name \in DOMAIN cards
       THEN LET new_qty == cards[card_name] - qty
            IN IF new_qty > 0
                  THEN [cards EXCEPT ![card_name] = new_qty]
                  ELSE [n \in DOMAIN cards \ {card_name} |-> cards[n]]
       ELSE cards

(***************************************************************************)
(* The deck files (deck_manager.py) and Deck.to_dict / Deck.from_dict.     *)
(***************************************************************************)
\* Deck.to_dict
to_dict(d) == [name |-> d.name, cards |-> d.cards]

\* Deck.from_dict: data["name"] and data["cards"]
from_dict(data) == [present |-> TRUE, name |-> data.name, cards |-> data.cards]

\* json.dump of the dictionary: its members in insertion order
DeckDump(data) == <<<<"name", data.name>>, <<"cards", data.cards>>>>

\* json.load of the file: a dict looked up by key
DeckMember(text, key) == text[CHOOSE i \in 1..Len(text) : text[i][1] = key][2]

DeckLoad(text) == [name |-> DeckMember(text, "name"), cards |-> DeckMember(text, "cards")]

\* os.path.join(DECKS_DIR, f"{name}.json") names a file of DECKS_DIR itself
\* unless the name holds a path separator; save_deck creates no directory
\* but DECKS_DIR
InDecksDir(name) == \A i \in 1..Len(name) : name[i] # "/"

NoFiles == [n \in {} |-> <<>>]

\* save_deck: open(filepath, "w") raises when the directory does not exist
save_deck(files, d) ==
    IF InDecksDir(d.name)
       THEN [raised |-> FALSE,
             files |-> [n \in DOMAIN files \cup {d.name} |->
                          IF n = d.name THEN DeckDump(to_dict(d)) ELSE files[n]]]
       ELSE [raised |-> TRUE, files |-> files]

\* load_deck: None unless the file exists
load_deck(files, name) ==
    IF name \in DOMAIN files /\ InDecksDir(name)
       THEN from_dict(DeckLoad(files[name]))
       ELSE NoDeck

\* list_saved_decks: the names of the .json files
list_saved_decks(files) == DOMAIN files

(***************************************************************************)
(* Constants of _on_smart_build.                                           *)
(***************************************************************************)
ColorSymbols == {<<"W">>, <<"U">>, <<"B">>, <<"R">>, <<"G">>}

\* 1 <= len(colors) <= 3
MinColors == 1
MaxColors == 3

archetypes == <<<<"A", "g", "g", "r", "o">>, <<"M", "i", "d", "r", "a", "n", "g", "e">>, <<"C", "o", "n", "t", "r", "o", "l">>>>

ArchetypeNames == {<<"a", "g", "g", "r", "o">>, <<"c", "o", "n", "t", "r", "o", "l">>, <<"m", "i", "d", "r", "a", "n", "g", "e">>}

land_count == 24

DeckSize == 60

basic_map(col) ==
    CASE col = <<"W">> -> "Plains"
      [] col = <<"U">> -> "Island"
      [] col = <<"B">> -> "Swamp"
      [] col = <<"R">> -> "Mountain"
      [] col = <<"G">> -> "Forest"

creature_target(arch) ==
    IF arch = <<"a", "g", "g", "r", "o">> THEN 24
    ELSE IF arch = <<"m", "i", "d", "r", "a", "n", "g", "e">> THEN 18
    ELSE 12

noncreature_target(arch) ==
    IF arch = <<"a", "g", "g", "r", "o">> THEN 12
    ELSE IF arch = <<"m", "i", "d", "r", "a", "n", "g", "e">> THEN 18
    ELSE 24

(***************************************************************************)
(* Answers of the dialogs: askstring returns None on cancel.               *)
(***************************************************************************)
Cancelled == [ok |-> FALSE, text |-> <<>>]
Answer(text) == [ok |-> TRUE, text |-> text]

\* "if not answer": None or the empty string
Falsy(answer) == ~answer.ok \/ answer.text = <<>>

(***************************************************************************)
(* Colour parsing: the tokens of the input whose upper-cased form is one   *)
(* of W, U, B, R, G, upper-cased, in the order typed.                      *)
(***************************************************************************)
RECURSIVE KeepColors(_)
KeepColors(tokens) ==
    IF tokens = <<>> THEN <<>>
    ELSE (IF upper(strip(Head(tokens))) \in ColorSymbols
             THEN <<upper(strip(Head(tokens)))>>
             ELSE <<>>) \o KeepColors(Tail(tokens))

ParseColors(text) == KeepColors(split(text))

\* 1 <= len(colors) <= 3
ColorsAccepted(cols) == MinColors <= Len(cols) /\ Len(cols) <= MaxColors

(***************************************************************************)
(* The match history file (battle_simulator.py, lines 52-83).              *)
(***************************************************************************)
Record(dn, opp, res) == [deck |-> dn, opponent |-> opp, result |-> res]

\* json.dump of one record: the object's members in insertion order
JsonDump(rec) ==
    <<<<"deck", rec.deck>>, <<"opponent", rec.opponent>>, <<"result", rec.result>>>>

\* json.load of one object: a dict looked up by key
JsonMember(obj, key) == obj[CHOOSE i \in 1..Len(obj) : obj[i][1] = key][2]

JsonLoad(obj) ==
    [deck |-> JsonMember(obj, "deck"), opponent |-> JsonMember(obj, "opponent"),
     result |-> JsonMember(obj, "result")]

\* the file: absent, text that is not JSON, bytes that are not UTF-8 text,
\* or the text of a JSON list
NoFile == [kind |-> "missing", text |-> <<>>]
CorruptFile == [kind |-> "corrupt", text |-> <<>>]
UndecodableFile == [kind |-> "undecodable", text |-> <<>>]
JsonFile(objs) == [kind |-> "json", text |-> objs]

\* the file is opened with encoding="utf-8" and read by json.load inside a
\* try that catches json.JSONDecodeError only: the UnicodeDecodeError of the
\* read leaves the function
load_raises(file) == file.kind = "undecodable"

\* load_match_history: [] for a missing file and on JSONDecodeError
load_match_history(file) ==
    IF file.kind = "missing" THEN <<>>
    ELSE IF file.kind = "corrupt" THEN <<>>
    ELSE [i \in 1..Len(file.text) |-> JsonLoad(file.text[i])]

\* save_match_history: the file is rewritten with the dump of the list
save_match_history(hist) == JsonFile([i \in 1..Len(hist) |-> JsonDump(hist[i])])

\* a call that puts the new record in front of the loaded history
record_manual_result_Prepends(file, deck_name, opponent_name, result) ==
    save_match_history(<<Record(deck_name, opponent_name, result)>>
                          \o load_match_history(file))

\* record_manual_result: load, append, save; nothing is saved when the load
\* raises
record_manual_result(file, deck_name, opponent_name, result) ==
    IF load_raises(file) THEN file
    ELSE save_match_history(Append(load_match_history(file),
                                   Record(deck_name, opponent_name, result)))

(***************************************************************************)
(* The recommender: lines 921-941.                                         *)
(***************************************************************************)
\* a match on the archetype alone, whatever the colours
RecordMatches_IgnoresCombo(arch, combo, dn) == startswith(dn, arch)

\* a structured match: the name the auto-builder gives a deck of that
\* archetype and colour list
RecordMatches_ExactName(arch, combo, dn) == dn = arch \o <<" ">> \o combo \o <<" ", "A", "u", "t", "o">>

\* dn.startswith(arch) and combo in dn
RecordMatches(arch, combo, dn) == startswith(dn, arch) /\ contains(dn, combo)

\* every matching record counted, ties included
Counted_WithTies(arch, combo, hist) ==
    {i \in 1..Len(hist) : RecordMatches(arch, combo, hist[i].deck)}

\* the records counted for one archetype: result W or L
Counted(arch, combo, hist) ==
    {i \in 1..Len(hist) :
        /\ RecordMatches(arch, combo, hist[i].deck)
        /\ hist[i].result \in {"W", "L"}}

ArchTotal(arch, combo, hist) == Cardinality(Counted(arch, combo, hist))

\* every counted record taken as a win
ArchWins_CountsLosses(arch, combo, hist) == Cardinality(Counted(arch, combo, hist))

ArchWins(arch, combo, hist) ==
    Cardinality({i \in Counted(arch, combo, hist) : hist[i].result = "W"})

\* rate >= best_rate instead of rate > best_rate
RateGreater_OrEqual(a, b) == a[1] * b[2] >= b[1] * a[2]

\* rates are fractions <<wins, total>> with total > 0; -1.0 is <<-1, 1>>
RateGreater(a, b) == a[1] * b[2] > b[1] * a[2]

NoRate == <<-1, 1>>

RECURSIVE RecommendFrom(_, _, _, _)
RecommendFrom(archs, combo, hist, best) ==
    IF archs = <<>> THEN best
    ELSE LET arch == Head(archs)
             total == ArchTotal(arch, combo, hist)
             rate == <<ArchWins(arch, combo, hist), total>>
         IN RecommendFrom(Tail(archs), combo, hist,
                IF total > 0 /\ RateGreater(rate, best.rate)
                   THEN [arch |-> arch, rate |-> rate]
                   ELSE best)

Recommend(combo, hist) ==
    RecommendFrom(archetypes, combo, hist, [arch |-> <<>>, rate |-> NoRate])

(***************************************************************************)
(* Deck name and land allocation: lines 970-986.                           *)
(***************************************************************************)
\* the colours joined by a space instead of a slash
Combo_SpaceJoin(cols) == join(<<" ">>, cols)

\* combo = "/".join(colors)
Combo(cols) == join(<<"/">>, cols)

\* the name built from the archetype as entered, without capitalize()
DeckName_NoCapitalize(arch, combo) == arch \o <<" ">> \o combo \o <<" ", "A", "u", "t", "o">>

\* f"{archetype.capitalize()} {combo} Auto"
DeckName(arch, combo) == capitalize(arch) \o <<" ">> \o combo \o <<" ", "A", "u", "t", "o">>

\* the extra lands handed to the last colours instead of the first
LandQty_ExtraLast(lands, n, idx) ==
    (lands \div n) + (IF idx >= n - (lands % n) THEN 1 ELSE 0)

\* qty = per_color + (1 if idx < extra else 0), idx counted from 0
LandQty(lands, n, idx) ==
    (lands \div n) + (IF idx < lands % n THEN 1 ELSE 0)

RECURSIVE PlaceLandsFrom(_, _, _, _)
PlaceLandsFrom(cards, cols, idx, lands) ==
    IF idx >= Len(cols) THEN cards
    ELSE PlaceLandsFrom(
            add_card(cards, basic_map(cols[idx + 1]), LandQty(lands, Len(cols), idx)),
            cols, idx + 1, lands)

PlaceLands(cards, cols, lands) == PlaceLandsFrom(cards, cols, 0, lands)

(***************************************************************************)
(* Catalog: search_cards (mtg_api.py) and the three acquisition phases.    *)
(***************************************************************************)
Card(name, cols) == [name |-> name, colors |-> cols]

\* the HTTP response of the search endpoint
Response(status, data) == [status |-> status, data |-> data, failure |-> "none"]

\* a round trip that ends in an exception: requests.get raises ("network",
\* no response at all) or res.json() raises on the body of a 200 ("parse")
Failure(kind) ==
    [status |-> IF kind = "parse" THEN 200 ELSE 0, data |-> <<>>, failure |-> kind]

NoResponse == Response(0, <<>>)

\* search_cards has no try/except: the exception leaves the function
search_raises(resp) ==
    \/ resp.failure = "network"
    \/ resp.status = 200 /\ resp.failure = "parse"

\* search_cards: [] unless the status is 200
search_cards(resp) == IF resp.status # 200 THEN <<>> ELSE resp.data

\* a filter that lets every returned card through
ColorFilter_KeepsAll(cards, cols) == cards

\* [c for c in cards if set(c.colors).issubset(set(colors))]
RECURSIVE ColorFilter(_, _)
ColorFilter(cards, cols) ==
    IF cards = <<>> THEN <<>>
    ELSE (IF Range(Head(cards).colors) \subseteq Range(cols)
             THEN <<Head(cards)>> ELSE <<>>) \o ColorFilter(Tail(cards), cols)

\* a loop that stops one card after the target: added > target
RECURSIVE AcquireFrom_OverTarget(_, _, _, _, _)
AcquireFrom_OverTarget(list, target, cards, usednames, added) ==
    IF list = <<>> \/ added > target
       THEN [cards |-> cards, used |-> usednames, added |-> added]
       ELSE IF Head(list).name \notin usednames
               THEN AcquireFrom_OverTarget(Tail(list), target,
                                add_card(cards, Head(list).name, 1),
                                usednames \cup {Head(list).name}, added + 1)
               ELSE AcquireFrom_OverTarget(Tail(list), target, cards, usednames, added)

\* the creature and noncreature loops: stop at the target, skip used names
RECURSIVE AcquireFrom(_, _, _, _, _)
AcquireFrom(list, target, cards, usednames, added) ==
    IF list = <<>> \/ added >= target
       THEN [cards |-> cards, used |-> usednames, added |-> added]
       ELSE IF Head(list).name \notin usednames
               THEN AcquireFrom(Tail(list), target,
                                add_card(cards, Head(list).name, 1),
                                usednames \cup {Head(list).name}, added + 1)
               ELSE AcquireFrom(Tail(list), target, cards, usednames, added)

Acquire(list, target, cards, usednames) ==
    AcquireFrom(list, target, cards, usednames, 0)

\* a filler loop without its break: every unused name is added
RECURSIVE FillFrom_NoBreak(_, _, _, _)
FillFrom_NoBreak(list, fill_needed, cards, usednames) ==
    IF list = <<>>
       THEN [cards |-> cards, used |-> usednames]
       ELSE IF Head(list).name \notin usednames
               THEN FillFrom_NoBreak(Tail(list), fill_needed - 1,
                                     add_card(cards, Head(list).name, 1),
                                     usednames \cup {Head(list).name})
               ELSE FillFrom_NoBreak(Tail(list), fill_needed, cards, usednames)

\* the filler loop: stop when fill_needed reaches 0
RECURSIVE FillFrom(_, _, _, _)
FillFrom(list, fill_needed, cards, usednames) ==
    IF list = <<>>
       THEN [cards |-> cards, used |-> usednames]
       ELSE IF Head(list).name \notin usednames
               THEN IF fill_needed - 1 = 0
                       THEN [cards |-> add_card(cards, Head(list).name, 1),
                             used |-> usednames \cup {Head(list).name}]
                       ELSE FillFrom(Tail(list), fill_needed - 1,
                                     add_card(cards, Head(list).name, 1),
                                     usednames \cup {Head(list).name})
               ELSE FillFrom(Tail(list), fill_needed, cards, usednames)

\* the query strings, by their parts
CmcFilter(kind, arch) ==
    IF kind = "creature"
       THEN (IF arch = <<"a", "g", "g", "r", "o">> THEN "cmc<=3"
             ELSE IF arch = <<"m", "i", "d", "r", "a", "n", "g", "e">> THEN "cmc<=4" ELSE "cmc<=5")
       ELSE (IF arch = <<"a", "g", "g", "r", "o">> THEN "cmc<=3"
             ELSE IF arch = <<"m", "i", "d", "r", "a", "n", "g", "e">> THEN "cmc<=4" ELSE "cmc>=3")

Query(kind, cols, arch) ==
    [type |-> kind, c |-> join(<<>>, cols), cmc |-> CmcFilter(kind, arch)]

FillerQuery == [type |-> "creature", c |-> <<>>, cmc |-> "cmc<=3"]

(***************************************************************************)
(* _on_smart_build, step by step: each action runs the callback from one   *)
(* dialog or catalog round trip to the next.                               *)
(***************************************************************************)
\* lines 907-941: colour dialog, validation, load of the history, recommender
SmartBuildColors(Inputs) ==
    /\ b_pc = "start"
    /\ \E input \in Inputs :
          /\ color_input' = input
          /\ IF Falsy(input)
                THEN /\ b_pc' = "returned"
                     /\ UNCHANGED <<colors, history_loads, best_arch, best_rate, shown>>
                ELSE LET cols == ParseColors(input.text)
                     IN /\ colors' = cols
                        /\ IF ~ColorsAccepted(cols)
                              THEN /\ shown' = "Invalid Colors"
                                   /\ b_pc' = "returned"
                                   /\ UNCHANGED <<history_loads, best_arch, best_rate>>
                              ELSE LET best == Recommend(Combo(cols), history)
                                   IN /\ history_loads' = history_loads + 1
                                      /\ best_arch' = best.arch
                                      /\ best_rate' = best.rate
                                      /\ b_pc' = IF best.arch # <<>>
                                                    THEN "confirm"
                                                    ELSE "ask_archetype"
                                      /\ UNCHANGED shown
    /\ UNCHANGED <<history, archetype, deck, used, queries, current_deck, response>>
    /\ UNCHANGED <<history_file, saved_decks>>

\* lines 943-951: the askokcancel dialog offering the recommendation
SmartBuildConfirm ==
    /\ b_pc = "confirm"
    /\ \E confirm \in BOOLEAN :
          IF confirm
             THEN /\ archetype' = lower(best_arch)
                  /\ b_pc' = "build"
             ELSE /\ archetype' = <<>>
                  /\ b_pc' = "ask_archetype"
    /\ UNCHANGED <<color_input, colors, history, history_loads, best_arch,
                   best_rate, deck, used, queries, shown, current_deck, response>>
    /\ UNCHANGED <<history_file, saved_decks>>

\* lines 955-968: the archetype dialog and its validation
SmartBuildArchetype(Inputs) ==
    /\ b_pc = "ask_archetype"
    /\ \E arch_input \in Inputs :
          IF Falsy(arch_input)
             THEN /\ b_pc' = "returned"
                  /\ UNCHANGED <<archetype, shown>>
             ELSE IF lower(strip(arch_input.text)) \notin ArchetypeNames
                     THEN /\ shown' = "Invalid Archetype"
                          /\ b_pc' = "returned"
                          /\ UNCHANGED archetype
                     ELSE /\ archetype' = lower(strip(arch_input.text))
                          /\ b_pc' = "build"
                          /\ UNCHANGED shown
    /\ UNCHANGED <<color_input, colors, history, history_loads, best_arch,
                   best_rate, deck, used, queries, current_deck, response>>
    /\ UNCHANGED <<history_file, saved_decks>>

\* lines 970-986: the named deck and its basic lands
SmartBuildLands ==
    /\ b_pc = "build"
    /\ deck' = [Deck(DeckName(archetype, Combo(colors))) EXCEPT
                    !.cards = PlaceLands(NoCards, colors, land_count)]
    /\ b_pc' = "creatures"
    /\ UNCHANGED <<color_input, colors, history, history_loads, best_arch,
                   best_rate, archetype, used, queries, shown, current_deck, response>>
    /\ UNCHANGED <<history_file, saved_decks>>

\* lines 988-1005: the creature query and loop; an exception of search_cards
\* leaves the callback
SmartBuildCreatures(Responses) ==
    /\ b_pc = "creatures"
    /\ \E resp \in Responses :
          /\ response' = resp
          /\ IF search_raises(resp)
                THEN /\ b_pc' = "raised"
                     /\ UNCHANGED <<deck, used>>
                ELSE LET creatures == ColorFilter(search_cards(resp), colors)
                         got == Acquire(creatures, creature_target(archetype),
                                        deck.cards, {})
                     IN /\ deck' = [deck EXCEPT !.cards = got.cards]
                        /\ used' = got.used
                        /\ b_pc' = "noncreatures"
    /\ queries' = Append(queries, Query("creature", colors, archetype))
    /\ UNCHANGED <<color_input, colors, history, history_loads, best_arch,
                   best_rate, archetype, shown, current_deck>>
    /\ UNCHANGED <<history_file, saved_decks>>

\* lines 1007-1023: the instant/sorcery query and loop
SmartBuildNoncreatures(Responses) ==
    /\ b_pc = "noncreatures"
    /\ \E resp \in Responses :
          /\ response' = resp
          /\ IF search_raises(resp)
                THEN /\ b_pc' = "raised"
                     /\ UNCHANGED <<deck, used>>
                ELSE LET noncre == ColorFilter(search_cards(resp), colors)
                         got == Acquire(noncre, noncreature_target(archetype),
                                        deck.cards, used)
                     IN /\ deck' = [deck EXCEPT !.cards = got.cards]
                        /\ used' = got.used
                        /\ b_pc' = "fill"
    /\ queries' = Append(queries, Query("instant or sorcery", colors, archetype))
    /\ UNCHANGED <<color_input, colors, history, history_loads, best_arch,
                   best_rate, archetype, shown, current_deck>>
    /\ UNCHANGED <<history_file, saved_decks>>

\* lines 1025-1035: the filler query, issued only below 60 cards
SmartBuildFill(Responses) ==
    /\ b_pc = "fill"
    /\ IF total_cards(deck.cards) < DeckSize
          THEN /\ \E resp \in Responses :
                     /\ response' = resp
                     /\ IF search_raises(resp)
                           THEN /\ b_pc' = "raised"
                                /\ UNCHANGED <<deck, used>>
                           ELSE LET got == FillFrom(search_cards(resp),
                                                    DeckSize - total_cards(deck.cards),
                                                    deck.cards, used)
                                IN /\ deck' = [deck EXCEPT !.cards = got.cards]
                                   /\ used' = got.used
                                   /\ b_pc' = "finish"
               /\ queries' = Append(queries, FillerQuery)
          ELSE /\ b_pc' = "finish"
               /\ UNCHANGED <<deck, used, queries, response>>
    /\ UNCHANGED <<color_input, colors, history, history_loads, best_arch,
                   best_rate, archetype, shown, current_deck>>
    /\ UNCHANGED <<history_file, saved_decks>>

\* a last step that also writes the built deck to the deck directory
SmartBuildFinish_SavesDeck ==
    /\ b_pc = "finish"
    /\ current_deck' = deck
    /\ shown' = "Smart Build Complete"
    /\ b_pc' = "returned"
    /\ UNCHANGED <<color_input, colors, history, history_loads, best_arch,
                   best_rate, archetype, deck, used, queries, response>>
    /\ saved_decks' = save_deck(saved_decks, deck).files
    /\ UNCHANGED history_file

\* lines 1037-1044: the built deck becomes the current deck
SmartBuildFinish ==
    /\ b_pc = "finish"
    /\ current_deck' = deck
    /\ shown' = "Smart Build Complete"
    /\ b_pc' = "returned"
    /\ UNCHANGED <<color_input, colors, history, history_loads, best_arch,
                   best_rate, archetype, deck, used, queries, response>>
    /\ UNCHANGED <<history_file, saved_decks>>

(***************************************************************************)
(* Calls of the Deck methods and of record_manual_result.                  *)
(***************************************************************************)
\* deck.add_card(card_name, qty)
AddCard(Names, Qtys) ==
    /\ d_calls < MaxDeckCalls
    /\ \E card_name \in Names, qty \in Qtys :
          d_cards' = add_card(d_cards, card_name, qty)
    /\ d_calls' = d_calls + 1

\* deck.remove_card(card_name, qty)
RemoveCard(Names, Qtys) ==
    /\ d_calls < MaxDeckCalls
    /\ \E card_name \in Names, qty \in Qtys :
          d_cards' = remove_card(d_cards, card_name, qty)
    /\ d_calls' = d_calls + 1

\* save_deck(deck)
SaveDeck(Decks) ==
    /\ io_calls < MaxStoreCalls
    /\ \E d \in Decks :
          LET saved == save_deck(saved_decks, d)
          IN /\ saved_decks' = saved.files
             /\ io' = [op |-> "save", arg |-> d, out |-> NoDeck, raised |-> saved.raised]
    /\ io_calls' = io_calls + 1

\* load_deck(name)
LoadDeck(Names) ==
    /\ io_calls < MaxStoreCalls
    /\ \E name \in Names :
          io' = [op |-> "load", arg |-> Deck(name), out |-> load_deck(saved_decks, name),
                 raised |-> FALSE]
    /\ io_calls' = io_calls + 1
    /\ UNCHANGED saved_decks

(***************************************************************************)
(* record_manual_result statement by statement, for two invocations p that *)
(* share the history file (two running copies of the program).             *)
(***************************************************************************)
\* the call: record_manual_result(deck_name, opponent_name, result)
RaceCall(p, Decks, Opponents, Results) ==
    /\ r_pc[p] = "idle"
    /\ \E deck_name \in Decks, opponent_name \in Opponents, result \in Results :
          r_args' = [r_args EXCEPT ![p] = Record(deck_name, opponent_name, result)]
    /\ r_pc' = [r_pc EXCEPT ![p] = "call"]
    /\ UNCHANGED <<r_history, history_file>>

\* line 81: history = load_match_history()
RaceLoad(p) ==
    /\ r_pc[p] = "call"
    /\ IF load_raises(history_file)
          THEN /\ r_pc' = [r_pc EXCEPT ![p] = "raised"]
               /\ UNCHANGED r_history
          ELSE /\ r_history' = [r_history EXCEPT ![p] = load_match_history(history_file)]
               /\ r_pc' = [r_pc EXCEPT ![p] = "loaded"]
    /\ UNCHANGED <<r_args, history_file>>

\* line 82: history.append({...})
RaceAppend(p) ==
    /\ r_pc[p] = "loaded"
    /\ r_history' = [r_history EXCEPT ![p] = Append(r_history[p], r_args[p])]
    /\ r_pc' = [r_pc EXCEPT ![p] = "appended"]
    /\ UNCHANGED <<r_args, history_file>>

\* a save that reads the file again and appends to what it finds
RaceSave_Rereads(p) ==
    /\ r_pc[p] = "appended"
    /\ history_file' = save_match_history(Append(load_match_history(history_file),
                                                 r_args[p]))
    /\ r_pc' = [r_pc EXCEPT ![p] = "done"]
    /\ UNCHANGED <<r_args, r_history>>

\* line 83: save_match_history(history)
RaceSave(p) ==
    /\ r_pc[p] = "appended"
    /\ history_file' = save_match_history(r_history[p])
    /\ r_pc' = [r_pc EXCEPT ![p] = "done"]
    /\ UNCHANGED <<r_args, r_history>>

\* _on_smart_build is entered: the recommender will read the history file
OnSmartBuild ==
    /\ b_pc = "idle"
    /\ m_pc \in {"idle", "returned", "shown"}
    /\ b_pc' = "start"
    /\ history' = load_match_history(history_file)
    /\ UNCHANGED <<color_input, colors, history_loads, best_arch, best_rate,
                   archetype, deck, used, queries, shown, current_deck, response>>
    /\ UNCHANGED <<history_file, saved_decks>>

\* _on_simulate_battle up to the simulate_match call, the dialogs answered d1, d2
OnSimulateBattleWith(d1, d2) ==
    LET choices == list_saved_decks(saved_decks)
        deck1 == load_deck(saved_decks, d1.text)
        deck2 == load_deck(saved_decks, d2.text)
    IN /\ m_pc = "idle"
       /\ b_pc \in {"idle", "returned", "raised"}
       /\ IF \/ Cardinality(choices) < 2
             \/ Falsy(d1) \/ d1.text \notin choices \/ ~deck1.present
             \/ Falsy(d2) \/ d2.text \notin choices \/ ~deck2.present
             THEN /\ m_pc' = "returned"
                  /\ UNCHANGED <<cards1, cards2, iterations>>
             ELSE /\ cards1' = deck1.cards
                  /\ cards2' = deck2.cards
                  /\ iterations' = SimulateIterations
                  /\ m_pc' = "loop"
       /\ UNCHANGED <<it, wins1, wins2, ties, result1, result2, m_return>>
       /\ UNCHANGED <<history_file, saved_decks>>

\* _on_simulate_battle()
OnSimulateBattle(Answers1, Answers2) ==
    \E d1 \in Answers1, d2 \in Answers2 : OnSimulateBattleWith(d1, d2)

\* lines 1077-1083: the message box with the counts
OnSimulateBattleShow ==
    /\ m_pc = "done"
    /\ m_pc' = "shown"
    /\ shown' = "Simulation Complete"
    /\ UNCHANGED <<cards1, cards2, iterations, it, wins1, wins2, ties,
                   result1, result2, m_return>>
    /\ UNCHANGED <<b_pc, color_input, colors, history, history_loads, best_arch,
                   best_rate, archetype, deck, used, queries, current_deck,
                   response>>
    /\ UNCHANGED <<history_file, saved_decks>>

\* main.py:1112: the test a result code passes, accepting any entered text
ResultAccepted_AnyText(result) == ~Falsy(result)

\* main.py:1112: not (not result or result.upper() not in {"W","L","T"})
ResultAccepted(result) ==
    /\ ~Falsy(result)
    /\ upper(result.text) \in {<<"W">>, <<"L">>, <<"T">>}

\* the str made of the characters of s
RECURSIVE Joined(_)
Joined(s) == IF s = <<>> THEN "" ELSE s[1] \o Joined(Tail(s))

\* _on_record_result with the three dialogs answered deck_name, opponent, result
OnRecordResultWith(deck_name, opponent, result) ==
    LET choices == list_saved_decks(saved_decks) IN
    /\ calls < MaxRecordRuns
    /\ calls' = calls + 1
    /\ IF choices = {}
          THEN UNCHANGED <<history_file, call, shown>>
          ELSE IF Falsy(deck_name) \/ deck_name.text \notin choices
          THEN UNCHANGED <<history_file, call, shown>>
          ELSE IF ~opponent.ok
          THEN UNCHANGED <<history_file, call, shown>>
          ELSE IF ~ResultAccepted(result)
          THEN /\ shown' = "Invalid Result"
               /\ UNCHANGED <<history_file, call>>
          ELSE /\ call' = [deck |-> deck_name.text, opponent |-> opponent.text,
                           result |-> Joined(upper(result.text)),
                           raised |-> load_raises(history_file)]
               /\ history_file' = record_manual_result(history_file, deck_name.text,
                                      opponent.text, Joined(upper(result.text)))
               /\ UNCHANGED shown
    /\ UNCHANGED <<b_pc, color_input, colors, history, history_loads, best_arch,
                   best_rate, archetype, deck, used, queries, current_deck,
                   response, storeVars>>

\* _on_record_result()
OnRecordResult(DeckAnswers, OpponentAnswers, ResultAnswers) ==
    \E deck_name \in DeckAnswers, opponent \in OpponentAnswers,
       result \in ResultAnswers :
          OnRecordResultWith(deck_name, opponent, result)

\* record_manual_result(deck_name, opponent_name, result)
RecordManualResult(Decks, Opponents, Results) ==
    /\ calls < MaxRecordCalls
    /\ \E deck_name \in Decks, opponent_name \in Opponents, result \in Results :
          /\ call' = [deck |-> deck_name, opponent |-> opponent_name,
                      result |-> result, raised |-> load_raises(history_file)]
          /\ history_file' = record_manual_result(history_file, deck_name,
                                                  opponent_name, result)
    /\ calls' = calls + 1

(***************************************************************************)
(* The inputs of the callback explored by the model.                       *)
(***************************************************************************)
\* tokens a user types in the colour dialog
ColorTokens == {<<"W">>, <<"U">>, <<"B">>, <<"R">>, <<"G">>, <<"X">>}

TokenLists(maxlen) == UNION {[1..k -> ColorTokens] : k \in 0..maxlen}

ColorInputs ==
    {Cancelled}
        \cup {Answer(join(<<" ">>, toks)) : toks \in TokenLists(MaxTokens)}
        \cup {Answer(<<" ", " ">>), Answer(<<" ", "r", " ", " ", "G", " ">>), Answer(<<"g">>),
              Answer(<<"u", " ", "x">>), Answer(<<"R", "G">>), Answer(<<"R", ",", "G">>),
              Answer(<<"R", "G", " ", "U">>)}

ArchetypeInputs ==
    {Cancelled, Answer(<<>>), Answer(<<"a", "g", "g", "r", "o">>), Answer(<<"C", "o", "n", "t", "r", "o", "l">>),
     Answer(<<" ", "M", "I", "D", "R", "A", "N", "G", "E", " ">>), Answer(<<"t", "e", "m", "p", "o">>)}

FewHistories ==
    {<<>>,
     <<Record(<<"A", "g", "g", "r", "o", " ", "R", "/", "G", " ", "A", "u", "t", "o">>, <<>>, "W"),
       Record(<<"C", "o", "n", "t", "r", "o", "l", " ", "U", " ", "A", "u", "t", "o">>, <<"B", "u", "r", "n">>, "L"),
       Record(<<"M", "i", "d", "r", "a", "n", "g", "e", " ", "U", " ", "A", "u", "t", "o">>, <<"B", "u", "r", "n">>, "W"),
       Record(<<"A", "g", "g", "r", "o", " ", "U", " ", "A", "u", "t", "o">>, <<>>, "T")>>}

FewResponses ==
    {Response(200, <<Card("Bear", <<<<"G">>>>), Card("Golem", <<>>),
                     Card("Bolt", <<<<"R">>>>), Card("Bear", <<<<"G">>>>),
                     Card("Drake", <<<<"U">>>>)>>),
     Response(503, <<>>)}

PriorDecks ==
    {NoDeck,
     [Deck(<<"T", "e", "s", "t">>) EXCEPT !.cards = add_card(NoCards, "Bolt", 4)]}

\* deck names found in a history file, and the histories built from them
HistoryDecks ==
    {<<"A", "g", "g", "r", "o", " ", "R", " ", "A", "u", "t", "o">>, <<"M", "i", "d", "r", "a", "n", "g", "e", " ", "R", " ", "A", "u", "t", "o">>,
     <<"C", "o", "n", "t", "r", "o", "l", " ", "R", "/", "G", " ", "A", "u", "t", "o">>}

HistoryRecords == {Record(dn, <<"B", "u", "r", "n">>, res) : dn \in HistoryDecks, res \in {"W", "L", "T"}}

Histories(maxlen) == UNION {[1..k -> HistoryRecords] : k \in 0..maxlen}

RecommendColorInputs == {Cancelled, Answer(<<"R">>), Answer(<<"R", " ", "G">>)}

\* labels of auto-built decks of two colour lists, and the colour lists asked
LooseDecks == {<<"A", "g", "g", "r", "o", " ", "R", "/", "G", " ", "A", "u", "t", "o">>, <<"M", "i", "d", "r", "a", "n", "g", "e", " ", "G", " ", "A", "u", "t", "o">>}

LooseRecords == {Record(dn, <<"B", "u", "r", "n">>, res) : dn \in LooseDecks, res \in {"W", "L", "T"}}

LooseHistories(maxlen) == UNION {[1..k -> LooseRecords] : k \in 0..maxlen}

LooseColorInputs == {Answer(<<"R">>), Answer(<<"G">>), Answer(<<"G", " ", "R">>), Answer(<<"R", " ", "G">>)}

RecommendArchetypeInputs == {Cancelled, Answer(<<"a", "g", "g", "r", "o">>)}

\* result lists of the catalog: a long list of distinct names in name order,
\* most of them green, every fifth blue and every seventh colourless
CardName(i) == "Card" \o ToString(i)

CatalogCard(i) ==
    Card(CardName(i), IF i % 5 = 0 THEN <<<<"U">>>>
                      ELSE IF i % 7 = 0 THEN <<>> ELSE <<<<"G">>>>)

LongList(from, n) == [i \in 1..n |-> CatalogCard(from + i - 1)]

\* a short list with a repeated name, off-colour cards and a card named
\* like a basic land
MessyList ==
    <<Card("Bear", <<<<"G">>>>), Card("Golem", <<>>), Card("Bolt", <<<<"R">>>>),
      Card("Bear", <<<<"G">>>>), Card("Drake", <<<<"U">>>>), Card("Forest", <<>>)>>

\* what one round trip to the catalog can end in
CatalogResponses ==
    {Response(200, LongList(1, MaxCatalog)), Response(200, LongList(20, MaxCatalog)),
     Response(200, MessyList), Response(200, <<>>), Response(503, MessyList),
     Failure("network"), Failure("parse")}

CatalogColorInputs == {Cancelled, Answer(<<"G">>), Answer(<<"G", " ", "U">>), Answer(<<"R">>)}

CatalogArchetypeInputs ==
    {Cancelled, Answer(<<"a", "g", "g", "r", "o">>), Answer(<<"m", "i", "d", "r", "a", "n", "g", "e">>), Answer(<<"c", "o", "n", "t", "r", "o", "l">>)}

CatalogHistories == {<<>>, <<Record(<<"C", "o", "n", "t", "r", "o", "l", " ", "G", " ", "A", "u", "t", "o">>, <<"B", "u", "r", "n">>, "W")>>}

\* arguments of the add_card and remove_card calls
DeckCallNames == {"Bolt", "Bear"}

DeckCallQtys == (-MaxDelta)..MaxDelta

\* arguments of the record_manual_result calls, and the files they find
LogDecks == {<<"A", "g", "g", "r", "o", " ", "R", " ", "A", "u", "t", "o">>, <<"C", "o", "n", "t", "r", "o", "l", " ", "U", " ", "A", "u", "t", "o">>}

LogOpponents == {<<"B", "u", "r", "n">>}

LogResults == {"W", "L", "T"}

HistoryFiles ==
    {NoFile, CorruptFile}
        \cup {save_match_history(hist) :
                 hist \in UNION {[1..k -> {Record(dn, opp, res) :
                                             dn \in LogDecks, opp \in LogOpponents,
                                             res \in LogResults}] : k \in 0..1}}

\* files that hold no history a reader could get
DamagedFiles == {NoFile, CorruptFile, UndecodableFile}

NoCall == [deck |-> <<>>, opponent |-> <<>>, result |-> "", raised |-> FALSE]

\* a session of the window: the files it starts with and the dialog answers
SessionFiles ==
    {NoFile, CorruptFile} \cup {save_match_history(h) : h \in FewHistories \ {<<>>}}

SessionStores ==
    {save_deck(NoFiles, [Deck(<<"R", "a", "m", "p">>) EXCEPT
                           !.cards = add_card(add_card(NoCards, "Forest", 2), "Bolt", 6)]).files,
     save_deck(save_deck(NoFiles, [Deck(<<"R", "a", "m", "p">>) EXCEPT
                           !.cards = add_card(add_card(NoCards, "Forest", 2), "Bolt", 6)]).files,
               [Deck(<<"B", "u", "r", "n">>) EXCEPT
                           !.cards = add_card(add_card(NoCards, "Forest", 1), "Bolt", 6)]).files}

SessionDeckAnswers == {Cancelled, Answer(<<"R", "a", "m", "p">>), Answer(<<"B", "u", "r", "n">>), Answer(<<"N", "o", "p", "e">>)}

SessionColorInputs == {Cancelled, Answer(<<"G">>), Answer(<<"R", " ", "G">>)}

SessionArchetypeInputs == {Cancelled, Answer(<<"a", "g", "g", "r", "o">>), Answer(<<"t", "e", "m", "p", "o">>)}

SessionResponses == FewResponses \cup {Failure("network"), Failure("parse")}

\* answers to the three dialogs of _on_record_result, and the saved decks
RecordDeckAnswers == {Cancelled, Answer(<<"T", "e", "s", "t">>), Answer(<<"N", "o", "p", "e">>)}

RecordOpponentAnswers == {Cancelled, Answer(<<>>)}

RecordResultAnswers ==
    {Cancelled, Answer(<<>>), Answer(<<"W">>), Answer(<<"w">>), Answer(<<"l">>),
     Answer(<<"t">>), Answer(<<"x">>), Answer(<<" ", "w">>), Answer(<<"w", "i", "n">>)}

RecordFiles ==
    {NoFile, UndecodableFile,
     save_match_history(<<Record(<<"T", "e", "s", "t">>, <<"B", "u", "r", "n">>, "W")>>)}

RecordStores ==
    {NoFiles, save_deck(NoFiles, Deck(<<"T", "e", "s", "t">>)).files,
     save_deck(save_deck(NoFiles, Deck(<<"T", "e", "s", "t">>)).files,
               Deck(<<"A", "g", "g", "r", "o", " ", "R", " ", "A", "u", "t", "o">>)).files}

\* decks handed to save_deck and names handed to load_deck
StoreNames == {<<"T", "e", "s", "t">>, <<"A", "g", "g", "r", "o", " ", "R", " ", "A", "u", "t", "o">>, <<"A", "g", "g", "r", "o", " ", "R", "/", "G", " ", "A", "u", "t", "o">>}

StoreCards ==
    {NoCards, add_card(NoCards, "Bolt", 4),
     add_card(add_card(NoCards, "Forest", 24), "Bear", 1)}

StoreDecks == {[Deck(name) EXCEPT !.cards = cards] : name \in StoreNames, cards \in StoreCards}

NoIo == [op |-> "none", arg |-> NoDeck, out |-> NoDeck, raised |-> FALSE]

StoreIdle ==
    /\ saved_decks = NoFiles
    /\ io = NoIo
    /\ io_calls = 0

RaceIdle ==
    /\ r_pc = [p \in {1, 2} |-> "idle"]
    /\ r_args = [p \in {1, 2} |-> NoCall]
    /\ r_history = [p \in {1, 2} |-> <<>>]

DeckIdle ==
    /\ d_cards = NoCards
    /\ d_calls = 0

LogIdle ==
    /\ history_file = NoFile
    /\ call = NoCall
    /\ calls = 0

BuildIdle ==
    /\ b_pc = "idle"
    /\ color_input = Cancelled
    /\ colors = <<>>
    /\ history = <<>>
    /\ history_loads = 0
    /\ best_arch = <<>>
    /\ best_rate = NoRate
    /\ archetype = <<>>
    /\ deck = NoDeck
    /\ used = {}
    /\ queries = <<>>
    /\ shown = "none"
    /\ current_deck = NoDeck
    /\ response = NoResponse

(***************************************************************************)
(* Specifications.                                                         *)
(***************************************************************************)
HandIdle ==
    /\ h_pc = "idle"
    /\ h_cards = NoHand
    /\ h_size = 0
    /\ h_len = 0
    /\ h_hand = NoHand
    /\ h_lands = 0
    /\ h_result = FALSE

MatchIdle ==
    /\ m_pc = "idle"
    /\ cards1 = NoHand
    /\ cards2 = NoHand
    /\ iterations = 0
    /\ it = 0
    /\ wins1 = 0 /\ wins2 = 0 /\ ties = 0
    /\ result1 = FALSE /\ result2 = FALSE
    /\ m_return = <<>>

InitHand ==
    /\ h_pc = "call"
    /\ h_cards \in DecksOver(HandNames, MaxQty)
    /\ h_size \in (-1)..MaxHand
    /\ h_len = 0
    /\ h_hand = NoHand
    /\ h_lands = 0
    /\ h_result = FALSE
    /\ MatchIdle
    /\ BuildIdle
    /\ DeckIdle
    /\ LogIdle
    /\ StoreIdle
    /\ RaceIdle

NextHand ==
    \/ SimulateHandReturn
         /\ UNCHANGED <<matchVars, buildVars, deckVars, logVars,
                       storeVars, raceVars>>
    \/ SimulateHandRaise
         /\ UNCHANGED <<matchVars, buildVars, deckVars, logVars,
                       storeVars, raceVars>>

InitMatch ==
    /\ m_pc = "loop"
    /\ cards1 \in DecksOver(MatchNames, MaxMatchQty)
    /\ cards2 \in DecksOver(MatchNames, MaxMatchQty)
    /\ iterations \in 0..MaxIter
    /\ it = 0
    /\ wins1 = 0 /\ wins2 = 0 /\ ties = 0
    /\ result1 = FALSE /\ result2 = FALSE
    /\ m_return = <<>>
    /\ HandIdle
    /\ BuildIdle
    /\ DeckIdle
    /\ LogIdle
    /\ StoreIdle
    /\ RaceIdle

NextMatch ==
    \/ MatchIterate
         /\ UNCHANGED <<simVars, buildVars, deckVars, logVars,
                       storeVars, raceVars>>
    \/ MatchReturn
         /\ UNCHANGED <<simVars, buildVars, deckVars, logVars,
                       storeVars, raceVars>>

InitBuild ==
    /\ b_pc = "start"
    /\ color_input = Cancelled
    /\ colors = <<>>
    /\ history \in FewHistories
    /\ history_loads = 0
    /\ best_arch = <<>>
    /\ best_rate = NoRate
    /\ archetype = <<>>
    /\ deck = NoDeck
    /\ used = {}
    /\ queries = <<>>
    /\ shown = "none"
    /\ current_deck \in PriorDecks
    /\ response = NoResponse
    /\ HandIdle
    /\ MatchIdle
    /\ DeckIdle
    /\ LogIdle
    /\ StoreIdle
    /\ RaceIdle

NextBuild ==
    \/ SmartBuildColors(ColorInputs)
         /\ UNCHANGED <<simVars, matchVars, deckVars, logVars,
                       storeVars, raceVars>>
    \/ SmartBuildConfirm
         /\ UNCHANGED <<simVars, matchVars, deckVars, logVars,
                       storeVars, raceVars>>
    \/ SmartBuildArchetype(ArchetypeInputs)
         /\ UNCHANGED <<simVars, matchVars, deckVars, logVars,
                       storeVars, raceVars>>
    \/ SmartBuildLands
         /\ UNCHANGED <<simVars, matchVars, deckVars, logVars,
                       storeVars, raceVars>>
    \/ SmartBuildCreatures(FewResponses)
         /\ UNCHANGED <<simVars, matchVars, deckVars, logVars,
                       storeVars, raceVars>>
    \/ SmartBuildNoncreatures(FewResponses)
         /\ UNCHANGED <<simVars, matchVars, deckVars, logVars,
                       storeVars, raceVars>>
    \/ SmartBuildFill(FewResponses)
         /\ UNCHANGED <<simVars, matchVars, deckVars, logVars,
                       storeVars, raceVars>>
    \/ SmartBuildFinish
         /\ UNCHANGED <<simVars, matchVars, deckVars, logVars,
                       storeVars, raceVars>>

\* the recommender on every history of up to MaxHistory records
InitRecommend ==
    /\ b_pc = "start"
    /\ color_input = Cancelled
    /\ colors = <<>>
    /\ history \in Histories(MaxHistory)
    /\ history_loads = 0
    /\ best_arch = <<>>
    /\ best_rate = NoRate
    /\ archetype = <<>>
    /\ deck = NoDeck
    /\ used = {}
    /\ queries = <<>>
    /\ shown = "none"
    /\ current_deck = NoDeck
    /\ response = NoResponse
    /\ HandIdle
    /\ MatchIdle
    /\ DeckIdle
    /\ LogIdle
    /\ StoreIdle
    /\ RaceIdle

NextRecommend ==
    \/ SmartBuildColors(RecommendColorInputs)
         /\ UNCHANGED <<simVars, matchVars, deckVars, logVars,
                       storeVars, raceVars>>
    \/ SmartBuildConfirm
         /\ UNCHANGED <<simVars, matchVars, deckVars, logVars,
                       storeVars, raceVars>>
    \/ SmartBuildArchetype(RecommendArchetypeInputs)
         /\ UNCHANGED <<simVars, matchVars, deckVars, logVars,
                       storeVars, raceVars>>

\* the recommender asked for colour lists other than the recorded decks'
InitLoose ==
    /\ b_pc = "start"
    /\ color_input = Cancelled
    /\ colors = <<>>
    /\ history \in LooseHistories(MaxHistory)
    /\ history_loads = 0
    /\ best_arch = <<>>
    /\ best_rate = NoRate
    /\ archetype = <<>>
    /\ deck = NoDeck
    /\ used = {}
    /\ queries = <<>>
    /\ shown = "none"
    /\ current_deck = NoDeck
    /\ response = NoResponse
    /\ HandIdle
    /\ MatchIdle
    /\ DeckIdle
    /\ LogIdle
    /\ StoreIdle
    /\ RaceIdle

NextLoose ==
    \/ SmartBuildColors(LooseColorInputs)
         /\ UNCHANGED <<simVars, matchVars, deckVars, logVars,
                       storeVars, raceVars>>
    \/ SmartBuildConfirm
         /\ UNCHANGED <<simVars, matchVars, deckVars, logVars,
                       storeVars, raceVars>>
    \/ SmartBuildArchetype(RecommendArchetypeInputs)
         /\ UNCHANGED <<simVars, matchVars, deckVars, logVars,
                       storeVars, raceVars>>

\* the build against every outcome of the three catalog round trips
InitCatalog ==
    /\ b_pc = "start"
    /\ color_input = Cancelled
    /\ colors = <<>>
    /\ history \in CatalogHistories
    /\ history_loads = 0
    /\ best_arch = <<>>
    /\ best_rate = NoRate
    /\ archetype = <<>>
    /\ deck = NoDeck
    /\ used = {}
    /\ queries = <<>>
    /\ shown = "none"
    /\ current_deck = NoDeck
    /\ response = NoResponse
    /\ HandIdle
    /\ MatchIdle
    /\ DeckIdle
    /\ LogIdle
    /\ StoreIdle
    /\ RaceIdle

NextCatalog ==
    \/ SmartBuildColors(CatalogColorInputs)
         /\ UNCHANGED <<simVars, matchVars, deckVars, logVars,
                       storeVars, raceVars>>
    \/ SmartBuildConfirm
         /\ UNCHANGED <<simVars, matchVars, deckVars, logVars,
                       storeVars, raceVars>>
    \/ SmartBuildArchetype(CatalogArchetypeInputs)
         /\ UNCHANGED <<simVars, matchVars, deckVars, logVars,
                       storeVars, raceVars>>
    \/ SmartBuildLands
         /\ UNCHANGED <<simVars, matchVars, deckVars, logVars,
                       storeVars, raceVars>>
    \/ SmartBuildCreatures(CatalogResponses)
         /\ UNCHANGED <<simVars, matchVars, deckVars, logVars,
                       storeVars, raceVars>>
    \/ SmartBuildNoncreatures(CatalogResponses)
         /\ UNCHANGED <<simVars, matchVars, deckVars, logVars,
                       storeVars, raceVars>>
    \/ SmartBuildFill(CatalogResponses)
         /\ UNCHANGED <<simVars, matchVars, deckVars, logVars,
                       storeVars, raceVars>>
    \/ SmartBuildFinish
         /\ UNCHANGED <<simVars, matchVars, deckVars, logVars,
                       storeVars, raceVars>>

\* add_card and remove_card calls on a deck that starts empty
InitDeck ==
    /\ d_cards = NoCards
    /\ d_calls = 0
    /\ HandIdle
    /\ MatchIdle
    /\ BuildIdle
    /\ LogIdle
    /\ StoreIdle
    /\ RaceIdle

NextDeck ==
    \/ AddCard(DeckCallNames, DeckCallQtys)
         /\ UNCHANGED <<simVars, matchVars, buildVars, logVars,
                       storeVars, raceVars>>
    \/ RemoveCard(DeckCallNames, DeckCallQtys)
         /\ UNCHANGED <<simVars, matchVars, buildVars, logVars,
                       storeVars, raceVars>>

\* record_manual_result calls on a history file in any of its conditions
InitLog ==
    /\ history_file \in HistoryFiles
    /\ call = NoCall
    /\ calls = 0
    /\ HandIdle
    /\ MatchIdle
    /\ BuildIdle
    /\ DeckIdle
    /\ StoreIdle
    /\ RaceIdle

NextLog ==
    \/ RecordManualResult(LogDecks, LogOpponents, LogResults)
         /\ UNCHANGED <<simVars, matchVars, buildVars, deckVars,
                       storeVars, raceVars>>

\* record_manual_result calls on a history file that is absent or damaged
InitDamaged ==
    /\ history_file \in DamagedFiles
    /\ call = NoCall
    /\ calls = 0
    /\ HandIdle
    /\ MatchIdle
    /\ BuildIdle
    /\ DeckIdle
    /\ StoreIdle
    /\ RaceIdle

NextDamaged ==
    \/ RecordManualResult(LogDecks, LogOpponents, LogResults)
         /\ UNCHANGED <<simVars, matchVars, buildVars, deckVars,
                       storeVars, raceVars>>

\* the Record Result callback on a history file and a deck directory
InitRecord ==
    /\ history_file \in RecordFiles
    /\ call = NoCall
    /\ calls = 0
    /\ saved_decks \in RecordStores
    /\ io = NoIo
    /\ io_calls = 0
    /\ HandIdle
    /\ MatchIdle
    /\ BuildIdle
    /\ DeckIdle
    /\ RaceIdle

NextRecord ==
    \/ OnRecordResult(RecordDeckAnswers, RecordOpponentAnswers, RecordResultAnswers)
         /\ UNCHANGED <<simVars, matchVars, deckVars, raceVars>>

\* one window: the Smart Build and Simulate Battle callbacks, one at a time
InitSession ==
    /\ history_file \in SessionFiles
    /\ call = NoCall
    /\ calls = 0
    /\ saved_decks \in SessionStores
    /\ io = NoIo
    /\ io_calls = 0
    /\ b_pc = "idle"
    /\ color_input = Cancelled
    /\ colors = <<>>
    /\ history = <<>>
    /\ history_loads = 0
    /\ best_arch = <<>>
    /\ best_rate = NoRate
    /\ archetype = <<>>
    /\ deck = NoDeck
    /\ used = {}
    /\ queries = <<>>
    /\ shown = "none"
    /\ current_deck \in PriorDecks
    /\ response = NoResponse
    /\ MatchIdle
    /\ HandIdle
    /\ DeckIdle
    /\ RaceIdle

NextSession ==
    \/ OnSmartBuild
         /\ UNCHANGED <<simVars, matchVars, deckVars, raceVars, call, calls, io, io_calls>>
    \/ SmartBuildColors(SessionColorInputs)
         /\ UNCHANGED <<simVars, matchVars, deckVars, raceVars, call, calls, io, io_calls>>
    \/ SmartBuildConfirm
         /\ UNCHANGED <<simVars, matchVars, deckVars, raceVars, call, calls, io, io_calls>>
    \/ SmartBuildArchetype(SessionArchetypeInputs)
         /\ UNCHANGED <<simVars, matchVars, deckVars, raceVars, call, calls, io, io_calls>>
    \/ SmartBuildLands
         /\ UNCHANGED <<simVars, matchVars, deckVars, raceVars, call, calls, io, io_calls>>
    \/ SmartBuildCreatures(SessionResponses)
         /\ UNCHANGED <<simVars, matchVars, deckVars, raceVars, call, calls, io, io_calls>>
    \/ SmartBuildNoncreatures(SessionResponses)
         /\ UNCHANGED <<simVars, matchVars, deckVars, raceVars, call, calls, io, io_calls>>
    \/ SmartBuildFill(SessionResponses)
         /\ UNCHANGED <<simVars, matchVars, deckVars, raceVars, call, calls, io, io_calls>>
    \/ SmartBuildFinish
         /\ UNCHANGED <<simVars, matchVars, deckVars, raceVars, call, calls, io, io_calls>>
    \/ OnSimulateBattle(SessionDeckAnswers, SessionDeckAnswers)
         /\ UNCHANGED <<simVars, buildVars, deckVars, raceVars, call, calls, io, io_calls>>
    \/ MatchIterate
         /\ UNCHANGED <<simVars, buildVars, deckVars, raceVars, call, calls, io, io_calls>>
    \/ MatchReturn
         /\ UNCHANGED <<simVars, buildVars, deckVars, raceVars, call, calls, io, io_calls>>
    \/ OnSimulateBattleShow
         /\ UNCHANGED <<simVars, deckVars, raceVars, call, calls, io, io_calls>>

\* two invocations of record_manual_result on one history file
InitRace ==
    /\ history_file \in HistoryFiles
    /\ call = NoCall
    /\ calls = 0
    /\ RaceIdle
    /\ HandIdle
    /\ MatchIdle
    /\ BuildIdle
    /\ DeckIdle
    /\ StoreIdle

NextRace ==
    \/ \E p \in {1, 2} : RaceCall(p, LogDecks, LogOpponents, LogResults)
         /\ UNCHANGED <<simVars, matchVars, buildVars, deckVars, storeVars, call, calls>>
    \/ \E p \in {1, 2} : RaceLoad(p)
         /\ UNCHANGED <<simVars, matchVars, buildVars, deckVars, storeVars, call, calls>>
    \/ \E p \in {1, 2} : RaceAppend(p)
         /\ UNCHANGED <<simVars, matchVars, buildVars, deckVars, storeVars, call, calls>>
    \/ \E p \in {1, 2} : RaceSave(p)
         /\ UNCHANGED <<simVars, matchVars, buildVars, deckVars, storeVars, call, calls>>

\* save_deck and load_deck calls on a directory of deck files
InitStore ==
    /\ saved_decks = NoFiles
    /\ io = NoIo
    /\ io_calls = 0
    /\ HandIdle
    /\ MatchIdle
    /\ BuildIdle
    /\ DeckIdle
    /\ LogIdle
    /\ RaceIdle

NextStore ==
    \/ SaveDeck(StoreDecks)
         /\ UNCHANGED <<simVars, matchVars, buildVars, deckVars, logVars, raceVars>>
    \/ LoadDeck(StoreNames)
         /\ UNCHANGED <<simVars, matchVars, buildVars, deckVars, logVars, raceVars>>

vars == <<simVars, matchVars, buildVars, deckVars, logVars, storeVars, raceVars>>

SpecHand == InitHand /\ [][NextHand]_vars
SpecMatch == InitMatch /\ [][NextMatch]_vars
SpecBuild == InitBuild /\ [][NextBuild]_vars
SpecRecommend == InitRecommend /\ [][NextRecommend]_vars
SpecCatalog == InitCatalog /\ [][NextCatalog]_vars
SpecDeck == InitDeck /\ [][NextDeck]_vars
SpecLog == InitLog /\ [][NextLog]_vars
SpecStore == InitStore /\ [][NextStore]_vars
SpecDamaged == InitDamaged /\ [][NextDamaged]_vars
SpecLoose == InitLoose /\ [][NextLoose]_vars
SpecRace == InitRace /\ [][NextRace]_vars
SpecRecord == InitRecord /\ [][NextRecord]_vars
SpecSession == InitSession /\ [][NextSession]_vars

\* Once the dialogs are answered the callbacks run straight through: the
\* build from its land step to its last step, the simulation from its first
\* game to its message box.  A catalog query is taken to be answered.
BuildRuns ==
    /\ \/ SmartBuildLands
       \/ SmartBuildCreatures(SessionResponses)
       \/ SmartBuildNoncreatures(SessionResponses)
       \/ SmartBuildFill(SessionResponses)
       \/ SmartBuildFinish
    /\ UNCHANGED <<simVars, matchVars, deckVars, raceVars, call, calls, io, io_calls>>

SimulationRuns ==
    \/ /\ MatchIterate \/ MatchReturn
       /\ UNCHANGED <<simVars, buildVars, deckVars, raceVars, call, calls, io, io_calls>>
    \/ /\ OnSimulateBattleShow
       /\ UNCHANGED <<simVars, deckVars, raceVars, call, calls, io, io_calls>>

\* a window in which one of the two callbacks is run
InitRuns ==
    /\ InitSession
    /\ history_file # CorruptFile
    /\ current_deck = NoDeck

NextRuns ==
    \/ OnSmartBuild /\ m_pc = "idle"
         /\ UNCHANGED <<simVars, matchVars, deckVars, raceVars, call, calls, io, io_calls>>
    \/ SmartBuildColors(SessionColorInputs)
         /\ UNCHANGED <<simVars, matchVars, deckVars, raceVars, call, calls, io, io_calls>>
    \/ SmartBuildConfirm
         /\ UNCHANGED <<simVars, matchVars, deckVars, raceVars, call, calls, io, io_calls>>
    \/ SmartBuildArchetype(SessionArchetypeInputs)
         /\ UNCHANGED <<simVars, matchVars, deckVars, raceVars, call, calls, io, io_calls>>
    \/ SmartBuildLands
         /\ UNCHANGED <<simVars, matchVars, deckVars, raceVars, call, calls, io, io_calls>>
    \/ SmartBuildCreatures(SessionResponses)
         /\ UNCHANGED <<simVars, matchVars, deckVars, raceVars, call, calls, io, io_calls>>
    \/ SmartBuildNoncreatures(SessionResponses)
         /\ UNCHANGED <<simVars, matchVars, deckVars, raceVars, call, calls, io, io_calls>>
    \/ SmartBuildFill(SessionResponses)
         /\ UNCHANGED <<simVars, matchVars, deckVars, raceVars, call, calls, io, io_calls>>
    \/ SmartBuildFinish
         /\ UNCHANGED <<simVars, matchVars, deckVars, raceVars, call, calls, io, io_calls>>
    \/ OnSimulateBattle(SessionDeckAnswers, SessionDeckAnswers) /\ b_pc = "idle"
         /\ UNCHANGED <<simVars, buildVars, deckVars, raceVars, call, calls, io, io_calls>>
    \/ MatchIterate
         /\ UNCHANGED <<simVars, buildVars, deckVars, raceVars, call, calls, io, io_calls>>
    \/ MatchReturn
         /\ UNCHANGED <<simVars, buildVars, deckVars, raceVars, call, calls, io, io_calls>>
    \/ OnSimulateBattleShow
         /\ UNCHANGED <<simVars, deckVars, raceVars, call, calls, io, io_calls>>

FairRuns ==
    /\ InitRuns
    /\ [][NextRuns]_vars
    /\ WF_vars(BuildRuns)
    /\ WF_vars(SimulationRuns)

(***************************************************************************)
(* Properties of the simulator.                                            *)
(***************************************************************************)
LandNames == {"Plains", "Island", "Swamp", "Mountain", "Forest"}

\* copies of basic lands in a mapping from names to counts
LandCopies(f) == SumOver(f, {n \in DOMAIN f : n \in LandNames})

\* C1: in simulate_match the three counters always sum to the number of
\* iterations completed, each iteration adds one to exactly one of them, and
\* the returned triple sums to the iteration count N.
C1_TallySumsToIterations ==
    /\ [](/\ wins1 + wins2 + ties = it
          /\ it <= iterations
          /\ m_pc = "done" =>
                /\ Len(m_return) = 3
                /\ m_return[1] + m_return[2] + m_return[3] = iterations)
    /\ [][it' # it =>
            /\ it' = it + 1
            /\ \/ wins1' = wins1 + 1 /\ wins2' = wins2 /\ ties' = ties
               \/ wins1' = wins1 /\ wins2' = wins2 + 1 /\ ties' = ties
               \/ wins1' = wins1 /\ wins2' = wins2 /\ ties' = ties + 1]_vars

C1_Witness ==
    /\ m_pc = "done"
    /\ iterations = 3
    /\ m_return = <<1, 1, 1>>

\* C2: a call of simulate_hand on a deck whose quantities sum to less than
\* the hand size returns False and does not raise (the empty deck included).
C2_ShortDeckNotKeepable ==
    (h_pc # "call" /\ total_cards(h_cards) < h_size) =>
        (h_pc = "returned" /\ h_result = FALSE)

C2_Witness ==
    /\ h_pc = "returned"
    /\ h_size = 7
    /\ total_cards(h_cards) = 6
    /\ LandCopies(h_cards) = 3

\* C3: when the deck holds at least H copies, the call returns True exactly
\* when the hand drawn holds between 2 and 5 basic-land copies; the hand has
\* H copies, each taken from the deck at most once, and its land count lies
\* in 0..H and is at most the number of basic-land copies of the deck.
C3_KeepableIffTwoToFiveLands ==
    (h_pc = "returned" /\ total_cards(h_cards) >= h_size) =>
        /\ \A n \in DOMAIN h_hand : n \in DOMAIN h_cards /\ h_hand[n] <= h_cards[n]
        /\ SumOver(h_hand, DOMAIN h_hand) = h_size
        /\ h_lands = LandCopies(h_hand)
        /\ h_result = (2 <= LandCopies(h_hand) /\ LandCopies(h_hand) <= 5)
        /\ 0 <= h_lands /\ h_lands <= h_size
        /\ h_lands <= LandCopies(h_cards)

C3_Witness ==
    /\ h_pc = "returned"
    /\ h_size = 7
    /\ h_lands = 5
    /\ h_result = TRUE
    /\ LandCopies(h_cards) = 6

\* C4: in each iteration of simulate_match deck 1 gets the win exactly when
\* its hand is keepable and deck 2's is not, deck 2 exactly in the mirrored
\* case, and the iteration is a tie exactly when the two results are equal.
C4_DecisionRule ==
    [][it' # it =>
        /\ (wins1' = wins1 + 1) = (result1' /\ ~result2')
        /\ (wins1' = wins1) = ~(result1' /\ ~result2')
        /\ (wins2' = wins2 + 1) = (result2' /\ ~result1')
        /\ (wins2' = wins2) = ~(result2' /\ ~result1')
        /\ (ties' = ties + 1) = (result1' = result2')
        /\ (ties' = ties) = (result1' # result2')]_vars

C4_Witness ==
    /\ it = 3
    /\ wins1 = 1 /\ wins2 = 1 /\ ties = 1
    /\ result1 /\ result2

\* C5: when both decks hold fewer cards than the hand size 7, simulate_match
\* returns (0, 0, N).
C5_ShortDecksAllTies ==
    (m_pc = "done" /\ total_cards(cards1) < 7 /\ total_cards(cards2) < 7) =>
        m_return = <<0, 0, iterations>>

C5_Witness ==
    /\ m_pc = "done"
    /\ iterations = 3
    /\ total_cards(cards1) = 6 /\ LandCopies(cards1) = 3
    /\ total_cards(cards2) = 5 /\ LandCopies(cards2) = 2
    /\ m_return = <<0, 0, 3>>

(***************************************************************************)
(* Properties of the smart build.                                          *)
(***************************************************************************)
Distinct(seq) == \A i, j \in 1..Len(seq) : seq[i] = seq[j] => i = j

\* the basic land of a colour symbol, as the specification lists them
LandOf(col) ==
    CASE col = <<"W">> -> "Plains"
      [] col = <<"U">> -> "Island"
      [] col = <<"B">> -> "Swamp"
      [] col = <<"R">> -> "Mountain"
      [] col = <<"G">> -> "Forest"

\* the callback has placed the basic lands of the deck under construction
LandsPlaced == b_pc = "creatures"

\* C6: the land step gives the colour at position i (from 0) L div N lands,
\* plus one if i < L mod N: the quantities sum to L, differ by at most one,
\* and the extra ones go to the first colours (24 over two colours is 12/12,
\* over three 8/8/8, and 25 over three would be 9/8/8).  The callback places
\* the allocation of L = 24.
C6_LandAllocation ==
    LandsPlaced =>
        LET n == Len(colors)
        IN /\ deck.cards = PlaceLands(NoCards, colors, 24)
           /\ total_cards(deck.cards) = 24
           /\ \A L \in 0..MaxLandCount :
                LET placed == PlaceLands(NoCards, colors, L)
                IN /\ total_cards(placed) = L
                   /\ Distinct(colors) =>
                        /\ DOMAIN placed = {LandOf(colors[i]) : i \in 1..n}
                        /\ \A i \in 1..n :
                             placed[LandOf(colors[i])] =
                                (L \div n) + (IF i - 1 < L % n THEN 1 ELSE 0)
                        /\ \A i, j \in 1..n :
                             i < j => placed[LandOf(colors[i])]
                                        - placed[LandOf(colors[j])] \in {0, 1}
           /\ (n = 2 /\ Distinct(colors)) =>
                /\ deck.cards[LandOf(colors[1])] = 12
                /\ deck.cards[LandOf(colors[2])] = 12
           /\ (n = 3 /\ Distinct(colors)) =>
                /\ \A i \in 1..3 : deck.cards[LandOf(colors[i])] = 8
                /\ PlaceLands(NoCards, colors, 25)[LandOf(colors[1])] = 9
                /\ PlaceLands(NoCards, colors, 25)[LandOf(colors[2])] = 8
                /\ PlaceLands(NoCards, colors, 25)[LandOf(colors[3])] = 8

C6_Witness ==
    /\ LandsPlaced
    /\ colors = <<<<"R">>, <<"G">>, <<"B">>>>
    /\ deck.cards = [n \in {"Mountain", "Forest", "Swamp"} |-> 8]

\* C7: every colour list the smart build accepts holds 1 to 3 distinct
\* symbols of W, U, B, R, G, and the deck holds exactly one basic-land entry
\* per chosen colour, with that colour's allocated quantity.
C7_AcceptedColorsDistinct ==
    LandsPlaced =>
        /\ Len(colors) \in 1..3
        /\ \A i \in 1..Len(colors) : colors[i] \in ColorSymbols
        /\ Distinct(colors)
        /\ Cardinality(DOMAIN deck.cards) = Len(colors)
        /\ \A i \in 1..Len(colors) :
             /\ LandOf(colors[i]) \in DOMAIN deck.cards
             /\ deck.cards[LandOf(colors[i])] =
                    (24 \div Len(colors)) + (IF i - 1 < 24 % Len(colors) THEN 1 ELSE 0)

\* a token of the colour input that is none of W, U, B, R, G in either case
HasInvalidToken(answer) ==
    /\ answer.ok
    /\ \E i \in 1..Len(split(answer.text)) :
          upper(split(answer.text)[i]) \notin ColorSymbols

\* C8: a colour input holding a token outside W, U, B, R, G is rejected
\* before anything else runs: the history is not read, no catalog query is
\* issued, no deck is built and the current deck stays as it was.
C8_InvalidTokenRejected ==
    (b_pc # "start" /\ HasInvalidToken(color_input)) =>
        /\ b_pc = "returned"
        /\ history_loads = 0
        /\ queries = <<>>
        /\ deck = NoDeck
        /\ current_deck \in PriorDecks

\* the archetype names, capitalized
Title(arch) ==
    CASE arch = <<"a", "g", "g", "r", "o">> -> <<"A", "g", "g", "r", "o">>
      [] arch = <<"m", "i", "d", "r", "a", "n", "g", "e">> -> <<"M", "i", "d", "r", "a", "n", "g", "e">>
      [] arch = <<"c", "o", "n", "t", "r", "o", "l">> -> <<"C", "o", "n", "t", "r", "o", "l">>

\* the colours separated by slashes, for the list lengths accepted
Slashed(cols) ==
    CASE Len(cols) = 1 -> cols[1]
      [] Len(cols) = 2 -> cols[1] \o <<"/">> \o cols[2]
      [] Len(cols) = 3 -> cols[1] \o <<"/">> \o cols[2] \o <<"/">> \o cols[3]

\* C9: the built deck is named by the capitalized archetype, a space, the
\* colours joined by '/' in the order supplied, a space and 'Auto'; control
\* with colours U, B gives 'Control U/B Auto'.
C9_DeckName ==
    deck.present =>
        /\ archetype \in {<<"a", "g", "g", "r", "o">>, <<"m", "i", "d", "r", "a", "n", "g", "e">>, <<"c", "o", "n", "t", "r", "o", "l">>}
        /\ deck.name = Title(archetype) \o <<" ">> \o Slashed(colors) \o <<" ", "A", "u", "t", "o">>
        /\ (archetype = <<"c", "o", "n", "t", "r", "o", "l">> /\ colors = <<<<"U">>, <<"B">>>>) =>
                deck.name = <<"C", "o", "n", "t", "r", "o", "l", " ", "U", "/", "B", " ", "A", "u", "t", "o">>

C9_Witness ==
    /\ b_pc = "returned"
    /\ current_deck.present
    /\ current_deck.name = <<"C", "o", "n", "t", "r", "o", "l", " ", "U", "/", "B", " ", "A", "u", "t", "o">>
    /\ colors = <<<<"U">>, <<"B">>>>

\* C10: a history record labelled with the name the builder gives the deck
\* of archetype A and colours C is counted by the recommender, queried with
\* the same colours, for archetype A and for no other archetype.
C10_BuiltNameAttributed ==
    LandsPlaced =>
        \A res \in {"W", "L"} :
            LET combo == Combo(colors)
                later == Append(history, Record(deck.name, <<>>, res))
            IN /\ \A i \in 1..Len(archetypes) :
                    /\ RecordMatches(archetypes[i], combo, deck.name)
                          = (archetypes[i] = Title(archetype))
                    /\ ArchTotal(archetypes[i], combo, later) =
                          ArchTotal(archetypes[i], combo, history)
                            + (IF archetypes[i] = Title(archetype) THEN 1 ELSE 0)
               /\ Recommend(combo, <<Record(deck.name, <<>>, res)>>).arch
                     = Title(archetype)

C10_Witness ==
    /\ LandsPlaced
    /\ archetype = <<"a", "g", "g", "r", "o">>
    /\ best_arch = <<"A", "g", "g", "r", "o">>
    /\ colors = <<<<"R">>, <<"G">>>>
    /\ \E i \in 1..Len(history) : history[i].deck = deck.name

(***************************************************************************)
(* Properties of the recommender.                                          *)
(***************************************************************************)
\* the recommender has just run on the history of this state
Recommended == history_loads = 1 /\ b_pc \in {"confirm", "ask_archetype"}

\* the history records whose deck name starts with arch and holds the combo
MatchingRecords(arch, hist) ==
    {i \in 1..Len(hist) :
        LET dn == hist[i].deck
            combo == Slashed(colors)
        IN /\ Len(dn) >= Len(arch)
           /\ \A k \in 1..Len(arch) : dn[k] = arch[k]
           /\ \E off \in 0..(Len(dn) - Len(combo)) :
                 \A k \in 1..Len(combo) : dn[off + k] = combo[k]}

WinsOf(arch, hist) == Cardinality({i \in MatchingRecords(arch, hist) : hist[i].result = "W"})

LossesOf(arch, hist) == Cardinality({i \in MatchingRecords(arch, hist) : hist[i].result = "L"})

\* an archetype with at least one matching Win or Loss record
Candidate(arch, hist) == WinsOf(arch, hist) + LossesOf(arch, hist) > 0

Candidates(hist) == {k \in 1..Len(archetypes) : Candidate(archetypes[k], hist)}

\* wins/(wins+losses) of a over that of b, as fractions
RateOf(arch, hist) == <<WinsOf(arch, hist), WinsOf(arch, hist) + LossesOf(arch, hist)>>

RateAtLeast(a, b) == a[1] * b[2] >= b[1] * a[2]

\* the history without its Tie records
RECURSIVE WithoutTies(_)
WithoutTies(hist) ==
    IF hist = <<>> THEN <<>>
    ELSE IF Head(hist).result = "T" THEN WithoutTies(Tail(hist))
    ELSE <<Head(hist)>> \o WithoutTies(Tail(hist))

\* C11: Tie records change nothing: the recommendation and its rate are those
\* of the history with every Tie record removed, no archetype's wins or
\* wins+losses total counts a Tie, and an archetype whose matching records
\* are all Ties is not recommended.
C11_TiesIgnored ==
    Recommended =>
        /\ <<best_arch, best_rate>> =
              LET best == Recommend(Combo(colors), WithoutTies(history))
              IN <<best.arch, best.rate>>
        /\ \A k \in 1..Len(archetypes) :
              LET arch == archetypes[k]
              IN /\ ArchTotal(arch, Combo(colors), history)
                      = WinsOf(arch, WithoutTies(history)) + LossesOf(arch, WithoutTies(history))
                 /\ ArchWins(arch, Combo(colors), history) = WinsOf(arch, WithoutTies(history))
                 /\ (\A i \in MatchingRecords(arch, history) : history[i].result = "T")
                      => best_arch # arch

\* a recommendation made from a history in which a candidate also has a Tie
C11_Witness ==
    /\ Recommended
    /\ best_arch # <<>>
    /\ \E i \in MatchingRecords(best_arch, history) : history[i].result = "T"
    /\ \E k \in 1..Len(archetypes) :
          /\ MatchingRecords(archetypes[k], history) # {}
          /\ \A i \in MatchingRecords(archetypes[k], history) : history[i].result = "T"

\* the candidates whose rate no candidate exceeds
BestCandidates(hist) ==
    {k \in Candidates(hist) :
        \A j \in Candidates(hist) :
            RateAtLeast(RateOf(archetypes[k], hist), RateOf(archetypes[j], hist))}

\* C12: among candidates sharing the best win rate the recommender returns
\* the first in the order Aggro, Midrange, Control.
C12_TieBreakByOrder ==
    (Recommended /\ Cardinality(BestCandidates(history)) >= 2) =>
        \E k \in BestCandidates(history) :
            /\ best_arch = archetypes[k]
            /\ \A j \in BestCandidates(history) : k <= j

\* Midrange and Control share the best rate and Aggro is behind or absent
C12_Witness ==
    /\ Recommended
    /\ BestCandidates(history) = {2, 3}
    /\ best_arch = archetypes[2]

\* C13: the recommended archetype is a candidate, its rate is at least the
\* rate of every other candidate, and the reported rate is its own.
C13_RecommendedIsBest ==
    (Recommended /\ best_arch # <<>>) =>
        /\ \E k \in Candidates(history) : best_arch = archetypes[k]
        /\ \A j \in Candidates(history) :
              RateAtLeast(RateOf(best_arch, history), RateOf(archetypes[j], history))
        /\ best_rate = RateOf(best_arch, history)

\* three candidates, the recommended one strictly ahead of another, with a loss
C13_Witness ==
    /\ Recommended
    /\ best_arch # <<>>
    /\ Cardinality(Candidates(history)) >= 2
    /\ LossesOf(best_arch, history) > 0
    /\ \E j \in Candidates(history) :
          ~RateAtLeast(RateOf(archetypes[j], history), RateOf(best_arch, history))

\* C14: the recommender yields no recommendation exactly when no archetype
\* has a matching Win or Loss record, and then the callback goes on to ask
\* the user for the archetype (it offers a recommendation otherwise).
C14_NoRecommendationIffNoCandidate ==
    [][(b_pc = "start" /\ history_loads' = 1) =>
          /\ (best_arch' = <<>>) <=> (Candidates(history)' = {})
          /\ (b_pc' = "ask_archetype") <=> (Candidates(history)' = {})
          /\ (b_pc' = "confirm") <=> (Candidates(history)' # {})]_vars

\* a non-empty history of Ties and other colours only: the user is asked
C14_Witness ==
    /\ Recommended
    /\ b_pc = "ask_archetype"
    /\ archetype = <<>>
    /\ best_arch = <<>>
    /\ \E k \in 1..Len(archetypes) :
          \E i \in MatchingRecords(archetypes[k], history) : history[i].result = "T"
    /\ \E i \in 1..Len(history) : history[i].result = "W"

(***************************************************************************)
(* Properties of the acquisition phases.                                   *)
(***************************************************************************)
\* the deck under construction has been through the creature phase
Acquiring == b_pc \in {"noncreatures", "fill", "finish"}

\* the lands allocated to a name: the share of every colour whose land it is
LandShare(name) ==
    LET n == Len(colors)
        share == [i \in 1..n |-> (24 \div n) + (IF i - 1 < 24 % n THEN 1 ELSE 0)]
    IN SumOver(share, {i \in 1..n : LandOf(colors[i]) = name})

\* C15: during one auto-build no name is added twice, a land name included:
\* every land entry keeps its allocated quantity and every other entry has
\* quantity 1.
C15_NoNameAddedTwice ==
    Acquiring =>
        \A name \in DOMAIN deck.cards :
            deck.cards[name] = IF LandShare(name) > 0 THEN LandShare(name) ELSE 1

\* the part of C15 on names that are not the name of a placed land
C15_NonLandNamesOnce ==
    Acquiring =>
        \A name \in DOMAIN deck.cards : LandShare(name) = 0 => deck.cards[name] = 1

\* the list a catalog answer stands for
Listed(resp) == IF resp.status = 200 /\ resp.failure = "none" THEN resp.data ELSE <<>>

\* positions of the cards whose colours all lie among the chosen colours
InColour(list) ==
    {i \in 1..Len(list) : \A k \in 1..Len(list[i].colors) :
                              \E c \in 1..Len(colors) : colors[c] = list[i].colors[k]}

\* of the positions P, those holding the first occurrence of a name not in seen
Fresh(list, P, seen) ==
    {i \in P : /\ list[i].name \notin seen
               /\ \A j \in P : j < i => list[j].name # list[i].name}

\* the first m positions of F
FirstOf(F, m) == {i \in F : Cardinality({j \in F : j <= i}) <= m}

Min(a, b) == IF a <= b THEN a ELSE b

\* cards after one more copy of each of the names
PlusOneEach(cards, names) ==
    [n \in DOMAIN cards \cup names |->
        (IF n \in DOMAIN cards THEN cards[n] ELSE 0) + (IF n \in names THEN 1 ELSE 0)]

CreatureTargetOf(arch) ==
    CASE arch = <<"a", "g", "g", "r", "o">> -> 24 [] arch = <<"m", "i", "d", "r", "a", "n", "g", "e">> -> 18 [] OTHER -> 12

NoncreatureTargetOf(arch) ==
    CASE arch = <<"a", "g", "g", "r", "o">> -> 12 [] arch = <<"m", "i", "d", "r", "a", "n", "g", "e">> -> 18 [] OTHER -> 24

\* one phase took, one copy each, the first min(target, k) fresh names
PhaseAdds(list, seen, target) ==
    LET fresh == Fresh(list, InColour(list), seen)
        taken == FirstOf(fresh, target)
        names == {list[i].name : i \in taken}
    IN /\ Cardinality(names) = Min(target, Cardinality(fresh))
       /\ Cardinality(names) <= target
       /\ deck'.cards = PlusOneEach(deck.cards, names)
       /\ used' = seen \cup names

\* C16: the creature phase and the noncreature phase each add, one copy
\* each, exactly the first min(target, k) distinct not-yet-used names of the
\* colour-filtered result list, k being the number of such names, with the
\* targets 24/12 for aggro, 18/18 for midrange and 12/24 for control.
C16_PhaseAddsUpToTarget ==
    [][/\ (b_pc = "creatures" /\ b_pc' = "noncreatures") =>
            PhaseAdds(Listed(response'), {}, CreatureTargetOf(archetype))
       /\ (b_pc = "noncreatures" /\ b_pc' = "fill") =>
            PhaseAdds(Listed(response'), used, NoncreatureTargetOf(archetype))]_vars

\* a control build whose two phases both stopped at their targets, the
\* noncreature list holding further names
C16_Witness ==
    /\ b_pc = "fill"
    /\ archetype = <<"c", "o", "n", "t", "r", "o", "l">>
    /\ Cardinality(used) = 12 + 24
    /\ \E i \in InColour(Listed(response)) : Listed(response)[i].name \notin used

\* the padding took, one copy each, the first fresh names, at most need
PaddingAdds(list, seen, need) ==
    LET fresh == Fresh(list, 1..Len(list), seen)
        names == {list[i].name : i \in FirstOf(fresh, need)}
    IN /\ deck'.cards = PlusOneEach(deck.cards, names)
       /\ used' = seen \cup names
       /\ \/ Cardinality(names) = need
          \/ \A i \in 1..Len(list) : list[i].name \in seen \cup names

\* C17: below 60 cards after the two phases the builder issues one fallback
\* query and adds one copy of each unused name until the total is 60 or the
\* list is exhausted, so that afterwards the total is 60 or every fallback
\* name is used; at 60 cards no fallback query is issued.
C17_ShortfallPadding ==
    [][(b_pc = "fill" /\ b_pc' = "finish") =>
          IF total_cards(deck.cards) < 60
             THEN /\ queries' = Append(queries, FillerQuery)
                  /\ PaddingAdds(Listed(response'), used, 60 - total_cards(deck.cards))
                  /\ total_cards(deck'.cards) <= 60
                  /\ \/ total_cards(deck'.cards) = 60
                     \/ \A i \in 1..Len(Listed(response')) :
                            Listed(response')[i].name \in used'
             ELSE /\ queries' = queries
                  /\ deck' = deck
                  /\ used' = used]_vars

\* a shortfall padded up to 60 by a fallback list that holds further names
C17_Witness ==
    /\ b_pc = "finish"
    /\ Len(queries) = 3
    /\ total_cards(deck.cards) = 60
    /\ \E i \in 1..Len(Listed(response)) : Listed(response)[i].name \notin used

\* C18: no outcome of a catalog query aborts the build: the callback never
\* leaves through an exception, and the deck it builds holds the 24 lands.
C18_CatalogFailureNeverAborts ==
    /\ b_pc # "raised"
    /\ Acquiring => LandCopies(deck.cards) >= 24

\* the part of C18 on queries that answer: an error status or an empty list
\* leaves the phase without candidates and the build goes on
C18_AnsweredQueriesGoOn ==
    (b_pc # "raised" /\ Acquiring) => LandCopies(deck.cards) >= 24

(***************************************************************************)
(* Properties of the Deck methods and of the match history.                *)
(***************************************************************************)
\* C19: after any sequence of add_card and remove_card calls on an empty
\* deck every stored quantity is at least 1.
C19_QuantitiesPositive == \A name \in DOMAIN d_cards : d_cards[name] >= 1

\* the history a reader of the file gets
StoredHistory == load_match_history(history_file)

\* C20: every record_manual_result call leaves the stored history equal to
\* the history before it followed by the record of the call: the history
\* after a sequence of calls is the one before it followed by one record per
\* call in call order, earlier records unchanged, duplicates kept.
C20_HistoryOnlyAppends ==
    [][calls' = calls + 1 =>
          /\ Len(StoredHistory') = Len(StoredHistory) + 1
          /\ \A i \in 1..Len(StoredHistory) : StoredHistory'[i] = StoredHistory[i]
          /\ StoredHistory'[Len(StoredHistory')] =
                [deck |-> call'.deck, opponent |-> call'.opponent,
                 result |-> call'.result]]_vars

\* two calls after a stored record, the history holding a record twice
C20_Witness ==
    /\ calls >= 2
    /\ Len(StoredHistory) = calls + 1
    /\ StoredHistory[1] # StoredHistory[2]
    /\ \E i, j \in 1..Len(StoredHistory) : i < j /\ StoredHistory[i] = StoredHistory[j]

(***************************************************************************)
(* Properties of the deck files.                                           *)
(***************************************************************************)
\* C21: after save_deck(D), load_deck(D.name) returns a deck with D's name
\* and D's cards; the save leaves the stored text of every other name as it
\* was and replaces what was stored under D's name.
C21_SaveLoadRoundTrip ==
    [][io'.op = "save" /\ io_calls' = io_calls + 1 =>
          LET D == io'.arg
          IN /\ ~io'.raised
             /\ load_deck(saved_decks', D.name).present
             /\ load_deck(saved_decks', D.name).name = D.name
             /\ load_deck(saved_decks', D.name).cards = D.cards
             /\ DOMAIN saved_decks' = DOMAIN saved_decks \cup {D.name}
             /\ \A n \in DOMAIN saved_decks \ {D.name} :
                   saved_decks'[n] = saved_decks[n]]_vars

\* the part of C21 on names that hold no path separator
C21_PlainNamesRoundTrip ==
    [][(io'.op = "save" /\ io_calls' = io_calls + 1 /\ InDecksDir(io'.arg.name)) =>
          LET D == io'.arg
          IN /\ load_deck(saved_decks', D.name) = D
             /\ DOMAIN saved_decks' = DOMAIN saved_decks \cup {D.name}
             /\ \A n \in DOMAIN saved_decks \ {D.name} :
                   saved_decks'[n] = saved_decks[n]]_vars

\* the names that a step put in the used set
NewlyUsed == used' \ (IF b_pc = "creatures" THEN {} ELSE used)

\* C22: every card added in the creature phase or the noncreature phase is a
\* returned card whose colours all lie among the chosen colours, whatever
\* the catalog returned: colourless cards pass, a card with any other
\* colour does not.
C22_AddedCardsInColour ==
    [][(\/ b_pc = "creatures" /\ b_pc' = "noncreatures"
        \/ b_pc = "noncreatures" /\ b_pc' = "fill") =>
          /\ \A name \in NewlyUsed :
                \E i \in InColour(Listed(response')) : Listed(response')[i].name = name
          /\ \A name \in DOMAIN deck'.cards :
                (name \notin DOMAIN deck.cards \/ deck'.cards[name] # deck.cards[name])
                    => name \in NewlyUsed]_vars

\* a phase that took a colourless card and left an off-colour card of the
\* same list
C22_Witness ==
    /\ b_pc \in {"noncreatures", "fill"}
    /\ \E i \in InColour(Listed(response)) :
          Listed(response)[i].colors = <<>> /\ Listed(response)[i].name \in used
    /\ \E i \in (1..Len(Listed(response))) \ InColour(Listed(response)) :
          Listed(response)[i].name \notin used

\* C30: on a file that exists but is not parsable, and on a missing file,
\* load_match_history returns the empty list without failing and the next
\* record_manual_result stores a history of exactly the one new record.
C30_DamagedFileReadsEmpty ==
    [][(calls' = calls + 1 /\ history_file.kind # "json") =>
          /\ ~call'.raised
          /\ StoredHistory = <<>>
          /\ history_file'.kind = "json"
          /\ StoredHistory' = <<[deck |-> call'.deck, opponent |-> call'.opponent,
                                 result |-> call'.result]>>]_vars

\* the part of C30 on a missing file and on a text file that is not JSON
C30_MissingOrNotJsonReadsEmpty ==
    [][(calls' = calls + 1 /\ history_file.kind \in {"missing", "corrupt"}) =>
          /\ ~call'.raised
          /\ StoredHistory = <<>>
          /\ StoredHistory' = <<[deck |-> call'.deck, opponent |-> call'.opponent,
                                 result |-> call'.result]>>]_vars

(***************************************************************************)
(* Decks that cannot win.                                                  *)
(***************************************************************************)
\* fewer than 2 basic-land copies, or at least 7 cards of which fewer than 2
\* are not basic lands
Hopeless(cards) ==
    \/ LandCopies(cards) < 2
    \/ total_cards(cards) >= 7 /\ total_cards(cards) - LandCopies(cards) < 2

\* C28: a deck with fewer than 2 basic-land copies, or with fewer than 2
\* other copies among at least 7 cards, never has a keepable hand:
\* simulate_match gives it no win, and every iteration is a win for the
\* opponent or a tie.
C28_HopelessDeckNeverWins ==
    /\ Hopeless(cards1) =>
          /\ wins1 = 0
          /\ wins2 + ties = it
          /\ (it > 0 => ~result1)
          /\ (m_pc = "done" => m_return[1] = 0)
    /\ Hopeless(cards2) =>
          /\ wins2 = 0
          /\ wins1 + ties = it
          /\ (it > 0 => ~result2)
          /\ (m_pc = "done" => m_return[2] = 0)

\* seven cards, six of them lands, against a deck that won and tied
C28_Witness ==
    /\ m_pc = "done"
    /\ iterations = 3
    /\ total_cards(cards1) = 7 /\ LandCopies(cards1) = 6
    /\ ~Hopeless(cards2)
    /\ m_return[1] = 0 /\ m_return[2] > 0 /\ m_return[3] > 0

(***************************************************************************)
(* The loose match of the recommender.                                     *)
(***************************************************************************)
\* the Win and Loss records carrying exactly this label
WinLossLabelled(label) ==
    {i \in 1..Len(history) : history[i].deck = label /\ history[i].result \in {"W", "L"}}

\* C29: a record counts for colour combo C whenever C's slash-joined string
\* occurs anywhere in the deck label: asked for R alone the recommender counts
\* the records labelled "Aggro R/G Auto" in Aggro's rate, asked for G, R it
\* counts none of them.
C29_LooseSubstringMatch ==
    Recommended =>
        /\ \A k \in 1..Len(archetypes) :
              /\ ArchTotal(archetypes[k], Combo(colors), history)
                    = WinsOf(archetypes[k], history) + LossesOf(archetypes[k], history)
              /\ ArchWins(archetypes[k], Combo(colors), history)
                    = WinsOf(archetypes[k], history)
        /\ colors = <<<<"R">>>> =>
              /\ ArchTotal(archetypes[1], Combo(colors), history)
                    = Cardinality(WinLossLabelled(<<"A", "g", "g", "r", "o", " ", "R", "/", "G", " ", "A", "u", "t", "o">>))
              /\ WinLossLabelled(<<"A", "g", "g", "r", "o", " ", "R", "/", "G", " ", "A", "u", "t", "o">>) # {} =>
                    /\ best_arch = archetypes[1]
                    /\ best_rate[2] = Cardinality(WinLossLabelled(<<"A", "g", "g", "r", "o", " ", "R", "/", "G", " ", "A", "u", "t", "o">>))
        /\ colors = <<<<"G">>, <<"R">>>> =>
              /\ \A k \in 1..Len(archetypes) :
                    ArchTotal(archetypes[k], Combo(colors), history) = 0
              /\ best_arch = <<>>

\* asked for R, Aggro is recommended from records of red-green decks only
C29_Witness ==
    /\ Recommended
    /\ colors = <<<<"R">>>>
    /\ Len(history) >= 2
    /\ \A i \in 1..Len(history) : history[i].deck = <<"A", "g", "g", "r", "o", " ", "R", "/", "G", " ", "A", "u", "t", "o">>
    /\ best_arch = archetypes[1]
    /\ best_rate[2] = Len(history)

(***************************************************************************)
(* The size of the deck under construction.                                *)
(***************************************************************************)
\* the deck holds its lands: from the end of the land step to the return
LandsIn == b_pc \in {"creatures", "noncreatures", "fill", "finish"}

\* the copies stored under the names of the lands the land step placed
PlacedLandCopies(cards) ==
    SumOver(cards, {n \in DOMAIN cards : \E i \in 1..Len(colors) : n = LandOf(colors[i])})

\* C27: from the land step to the return the deck holds at least 24 and at
\* most 60 cards and the entries of the placed basic lands sum to exactly
\* 24; a build whose queries all came back empty returns exactly 24 cards.
C27_DeckBetween24And60 ==
    /\ LandsIn =>
          /\ total_cards(deck.cards) >= 24
          /\ total_cards(deck.cards) <= 60
          /\ PlacedLandCopies(deck.cards) = 24
          /\ (b_pc = "finish" /\ used = {}) => total_cards(deck.cards) = 24
    /\ (b_pc = "returned" /\ shown = "Smart Build Complete") =>
          /\ total_cards(current_deck.cards) >= 24
          /\ total_cards(current_deck.cards) <= 60
          /\ PlacedLandCopies(current_deck.cards) = 24

\* the part of C27 on the total: between 24 and 60, and 24 when nothing
\* was found
C27_TotalBetween24And60 ==
    /\ LandsIn =>
          /\ total_cards(deck.cards) >= 24
          /\ total_cards(deck.cards) <= 60
          /\ (b_pc = "finish" /\ used = {}) => total_cards(deck.cards) = 24
    /\ (b_pc = "returned" /\ shown = "Smart Build Complete") =>
          /\ total_cards(current_deck.cards) >= 24
          /\ total_cards(current_deck.cards) <= 60

(***************************************************************************)
(* Two invocations of record_manual_result.                                *)
(***************************************************************************)
BothDone == r_pc[1] = "done" /\ r_pc[2] = "done"

\* the history an invocation loaded
Loaded(p) == SubSeq(r_history[p], 1, Len(r_history[p]) - 1)

\* both invocations loaded before either saved: they loaded the same file
LoadedTogether == Loaded(1) = Loaded(2)

\* C25: record_manual_result is load, append, save without atomicity: when
\* both invocations load before either saves, the stored history holds the
\* loaded history and only one of the two new records; when one runs after
\* the other, the stored history ends with both records in call order.
C25_LostUpdate ==
    BothDone =>
        /\ LoadedTogether =>
              /\ Len(StoredHistory) = Len(Loaded(1)) + 1
              /\ \/ StoredHistory = Append(Loaded(1), r_args[1])
                 \/ StoredHistory = Append(Loaded(1), r_args[2])
        /\ ~LoadedTogether =>
              \E p, q \in {1, 2} :
                  /\ p # q
                  /\ Loaded(q) = Append(Loaded(p), r_args[p])
                  /\ StoredHistory = Append(Append(Loaded(p), r_args[p]), r_args[q])

\* a lost update: two different records recorded, one of them stored
C25_Witness ==
    /\ BothDone
    /\ LoadedTogether
    /\ Loaded(1) # <<>>
    /\ r_args[1] # r_args[2]
    /\ StoredHistory = Append(Loaded(1), r_args[2])

(***************************************************************************)
(* The Record Result callback.                                             *)
(***************************************************************************)
\* a result code that is empty or, upper-cased, is not W, L or T
BadCode(result) ==
    \/ ~result.ok
    \/ result.text = <<>>
    \/ \A code \in {"W", "L", "T"} : Joined(upper(result.text)) # code

\* C23: a record-result run whose code is empty or, upper-cased, is not W, L
\* or T is rejected and leaves the stored history as it was, and every
\* record a run appends has a result among W, L and T.
C23_InvalidResultRejected ==
    [][\A deck_name \in RecordDeckAnswers, opponent \in RecordOpponentAnswers,
          result \in RecordResultAnswers :
            OnRecordResultWith(deck_name, opponent, result) =>
                /\ BadCode(result) => history_file' = history_file
                /\ (BadCode(result) /\ deck_name.text \in DOMAIN saved_decks
                      /\ opponent.ok) => shown' = "Invalid Result"
                /\ history_file' # history_file =>
                      /\ Len(StoredHistory') = Len(StoredHistory) + 1
                      /\ StoredHistory'[Len(StoredHistory')].result \in {"W", "L", "T"}
                      /\ StoredHistory'[Len(StoredHistory')].result
                            = Joined(upper(result.text))]_vars

\* a lower-case code was recorded in upper case after a code was refused
C23_Witness ==
    /\ shown = "Invalid Result"
    /\ call.result = "L"
    /\ StoredHistory # <<>>
    /\ StoredHistory[Len(StoredHistory)].result = "L"
    /\ StoredHistory[Len(StoredHistory)].deck = call.deck

QueriesInOrder ==
    /\ Len(queries) <= 3
    /\ Len(queries) >= 1 => queries[1] = Query("creature", colors, archetype)
    /\ Len(queries) >= 2 => queries[2] = Query("instant or sorcery", colors, archetype)
    /\ Len(queries) = 3 => queries[3] = FillerQuery
    /\ \A i, j \in 1..Len(queries) : queries[i] = queries[j] => i = j

Building == b_pc \in {"build", "creatures", "noncreatures", "fill", "finish"}

DeckReturned ==
    /\ b_pc = "returned"
    /\ shown = "Smart Build Complete"
    /\ deck.present
    /\ current_deck = deck
    /\ Len(queries) \in {2, 3}

MatchFinished ==
    /\ m_pc = "done"
    /\ it = iterations
    /\ wins1 + wins2 + ties = iterations
    /\ m_return = <<wins1, wins2, ties>>

\* C26: every auto-build issues at most three catalog queries, in the order
\* creature, noncreature, filler and none of them twice, and ends by
\* returning a deck; every simulate_match call ends after exactly
\* `iterations` games.
C26_RunsToCompletion ==
    /\ []QueriesInOrder
    /\ Building ~> DeckReturned
    /\ (m_pc = "loop") ~> MatchFinished

\* every auto-build ends, with a deck or with the exception of a catalog
\* query, after at most three queries; every simulate_match call ends after
\* exactly `iterations` games
C26_RunsEnd ==
    /\ []QueriesInOrder
    /\ Building ~> (DeckReturned \/ (b_pc = "raised" /\ search_raises(response)))
    /\ (m_pc = "loop") ~> MatchFinished

====
